---- MODULE Spec2Model ----
(***************************************************************************)
(* Model of the Malayalam/English medical-assistant scripts: the brain     *)
(* modules (src/brain), the text bot (src/google_TT.py), the audio bot     *)
(* (src/google_att.py) and the unified facade                              *)
(* (src/unified_communication_bot.py).                                     *)
(*                                                                         *)
(* A text is a sequence of Unicode code points, so that str.lower(),       *)
(* str.isascii(), the `in` substring test and the f-string concatenations  *)
(* are computed as Python computes them.  Every call of an external        *)
(* library or service (translator, HTTP backend, vector store, LLM,        *)
(* transcriber, synthesiser, file system) is a nondeterministic choice     *)
(* among the outcomes it can have; each operation appends the external     *)
(* calls it makes, in order, to `log`.                                     *)
(***************************************************************************)
EXTENDS Integers, Sequences, FiniteSets, TLC

VARIABLES
    use_ollama,           \* TextToTextBot.use_ollama / BidirectionalMalayalamBot.use_ollama
    TEXT_BOT_AVAILABLE,   \* unified_communication_bot.py:13/16
    AUDIO_BOT_AVAILABLE,  \* unified_communication_bot.py:21/24
    kb_exists,            \* os.path.exists("./hospital_knowledge_base")
    call,                 \* the operation last called, with its arguments
    result,               \* what that call returned (None when it raised)
    raised,               \* TRUE when that call raised to its caller
    log,                  \* the external calls that call made, in order
    session,              \* the local variables of the interactive loop that runs
    rt                    \* real_time_local: the listen loop, its threads and files

vars == <<use_ollama, TEXT_BOT_AVAILABLE, AUDIO_BOT_AVAILABLE, kb_exists,
          call, result, raised, log, session, rt>>

\* What the module level and the constructors set, once.
settings == <<use_ollama, TEXT_BOT_AVAILABLE, AUDIO_BOT_AVAILABLE, kb_exists>>

\* What a single call of a function leaves alone.
env == <<settings, session, rt>>

----------------------------------------------------------------------------
(* Bounds of the model. *)

\* A text of the input space is a concatenation of at most MaxFrags fragments.
MaxFrags == 2

\* The vector store answers a similarity search with at most MaxDocs chunks.
MaxDocs == 2

----------------------------------------------------------------------------
(* Python values. *)

\* Python's None, as a text no string equals (-1 is no code point).
None == <<-1>>

\* The empty string.
EMPTY == <<>>

\* Python's None where a dict is expected.
Nothing == [none |-> TRUE]

\* f"{x}": the text, and "None" for None.
fstr(x) == IF x = None THEN <<78, 111, 110, 101>> ELSE x

\* bool(x) is False for None and for the empty string.
Falsy(x) == x = None \/ x = EMPTY

Min(a, b) == IF a <= b THEN a ELSE b

\* str.lower() on one character, for the characters of this model: ASCII
\* letters and the Latin-1 capitals; Malayalam letters have no case.
lower_char(c) ==
    IF c >= 65 /\ c <= 90 THEN c + 32
    ELSE IF c >= 192 /\ c <= 222 /\ c # 215 THEN c + 32
    ELSE c

\* str.lower()
lower(s) == [i \in 1..Len(s) |-> lower_char(s[i])]

\* str.isascii(): True for the empty string.
isascii(s) == \A i \in 1..Len(s) : s[i] < 128

\* `sub in s` on strings.
Contains(s, sub) ==
    \E i \in 0..(Len(s) - Len(sub)) : SubSeq(s, i + 1, i + Len(sub)) = sub

\* s[-n:] for n > 0.
LastChars(s, n) == IF Len(s) <= n THEN s ELSE SubSeq(s, Len(s) - n + 1, Len(s))

\* result[key] = value on a dict.
Put(r, key, value) ==
    [k \in DOMAIN r \cup {key} |-> IF k = key THEN value ELSE r[k]]

\* Marks, in the log, a call that raised instead of returning.
RAISED == <<-2>>

\* One external call in the log: what was called, with what, and what came
\* back (RAISED when it raised).
Ev(op, arg, out) == [op |-> op, arg |-> arg, out |-> out]

\* requests.post(url, json=..., timeout=...) in the log, with its request.
PostEv(request, out) == [op |-> "requests.post", request |-> request, out |-> out]

\* A conversation result written to disk, in the log.
SaveEv(conversation, out) == [op |-> "save_conversation", conversation |-> conversation, out |-> out]

\* db.similarity_search(query, k=k) in the log, with the chunks it returned.
SearchEv(query, docs) == [op |-> "similarity_search", arg |-> query, docs |-> docs]

\* The positions of the log at which `op` was called.
Calls(l, op) == {i \in 1..Len(l) : l[i].op = op}

----------------------------------------------------------------------------
(* String literals of the source, as code points. *)

\* brain.py:47: "\u26a0\ufe0f EMERGENCY: This is a red flag. Contact your surgeon immediately."
brain_EMERGENCY ==
    <<9888,65039,32,69,77,69,82,71,69,78,67,89,58,32,84,104,105,115,32,105,115,32,97,32,114,101,
      100,32,102,108,97,103,46,32,67,111,110,116,97,99,116,32,121,111,117,114,32,115,117,114,
      103,101,111,110,32,105,109,109,101,100,105,97,116,101,108,121,46>>
\* brain.py:50: "\u274c ERROR: The AI has no memory. You must run the build function first."
brain_NO_MEMORY ==
    <<10060,32,69,82,82,79,82,58,32,84,104,101,32,65,73,32,104,97,115,32,110,111,32,109,101,109,
      111,114,121,46,32,89,111,117,32,109,117,115,116,32,114,117,110,32,116,104,101,32,98,117,
      105,108,100,32,102,117,110,99,116,105,111,110,32,102,105,114,115,116,46>>
\* brain.py:57: "\U0001f50d No matching info found in the medical docs."
brain_NO_MATCH ==
    <<128269,32,78,111,32,109,97,116,99,104,105,110,103,32,105,110,102,111,32,102,111,117,110,
      100,32,105,110,32,116,104,101,32,109,101,100,105,99,97,108,32,100,111,99,115,46>>
\* brain.py:61: "Answer based ONLY on context: "
brain_PROMPT_HEAD ==
    <<65,110,115,119,101,114,32,98,97,115,101,100,32,79,78,76,89,32,111,110,32,99,111,110,116,
      101,120,116,58,32>>
\* brain.py:61: "\nQuestion: "
brain_PROMPT_QUESTION ==
    <<10,81,117,101,115,116,105,111,110,58,32>>
\* brain.py:59: "\n\n"
brain_JOIN ==
    <<10,10>>
\* brain2.py:28: "\u26a0\ufe0f EMERGENCY: This sounds critical. Please contact your doctor immediately."
brain2_EMERGENCY ==
    <<9888,65039,32,69,77,69,82,71,69,78,67,89,58,32,84,104,105,115,32,115,111,117,110,100,115,
      32,99,114,105,116,105,99,97,108,46,32,80,108,101,97,115,101,32,99,111,110,116,97,99,116,
      32,121,111,117,114,32,100,111,99,116,111,114,32,105,109,109,101,100,105,97,116,101,108,
      121,46>>
\* spec: "EMERGENCY"
EMERGENCY_WORD ==
    <<69,77,69,82,71,69,78,67,89>>
chest_pain ==
    <<99,104,101,115,116,32,112,97,105,110>>
bleeding ==
    <<98,108,101,101,100,105,110,103>>
breathless ==
    <<98,114,101,97,116,104,108,101,115,115>>
unconscious ==
    <<117,110,99,111,110,115,99,105,111,117,115>>
heartbeat ==
    <<104,101,97,114,116,98,101,97,116>>
fluttering ==
    <<102,108,117,116,116,101,114,105,110,103>>
Portfolio ==
    <<80,111,114,116,102,111,108,105,111>>
person ==
    <<112,101,114,115,111,110>>
\* mixed-case red flag of brain.py and brain2.py: "Chest Pain"
F_ChestPain ==
    <<67,104,101,115,116,32,80,97,105,110>>
\* red flag of brain.py only: "unconscious"
F_unconscious ==
    <<117,110,99,111,110,115,99,105,111,117,115>>
\* upper-case red flag of brain2.py only: "FLUTTERING"
F_FLUTTERING ==
    <<70,76,85,84,84,69,82,73,78,71>>
\* symptom keyword of get_fallback_response: "fever "
F_fever ==
    <<102,101,118,101,114,32>>
\* medication keyword of get_fallback_response: "Medicine"
F_medicine ==
    <<77,101,100,105,99,105,110,101>>
\* neutral ASCII: "hi "
F_hi ==
    <<104,105,32>>
\* Malayalam word: letters of malayalam_chars and a vowel sign: "\u0d35\u0d47\u0d26\u0d28"
F_vedana ==
    <<3381,3399,3366,3368>>
\* U+0D7B, in the Malayalam block, not in malayalam_chars: "\u0d7b"
F_chillu ==
    <<3451>>
\* non-ASCII, not Malayalam: "\xc9"
F_eacute ==
    <<201>>
\* brain2.py:49-55: "\n    SYSTEM PERSONA: You are a Medical Guardian for Arthur Pendelton.\n    STRICT RULE: Only use the 'Patient Facts' for specific dates, medications, and history.\n    If 'Patient Facts' contradicts 'General Rules', Arthur's facts are the TRUTH.\n\n    [CONVERSATION HISTORY]\n    "
brain2_P1 ==
    <<10,32,32,32,32,83,89,83,84,69,77,32,80,69,82,83,79,78,65,58,32,89,111,117,32,97,114,101,
      32,97,32,77,101,100,105,99,97,108,32,71,117,97,114,100,105,97,110,32,102,111,114,32,65,
      114,116,104,117,114,32,80,101,110,100,101,108,116,111,110,46,10,32,32,32,32,83,84,82,73,
      67,84,32,82,85,76,69,58,32,79,110,108,121,32,117,115,101,32,116,104,101,32,39,80,97,116,
      105,101,110,116,32,70,97,99,116,115,39,32,102,111,114,32,115,112,101,99,105,102,105,99,32,
      100,97,116,101,115,44,32,109,101,100,105,99,97,116,105,111,110,115,44,32,97,110,100,32,
      104,105,115,116,111,114,121,46,10,32,32,32,32,73,102,32,39,80,97,116,105,101,110,116,32,
      70,97,99,116,115,39,32,99,111,110,116,114,97,100,105,99,116,115,32,39,71,101,110,101,114,
      97,108,32,82,117,108,101,115,39,44,32,65,114,116,104,117,114,39,115,32,102,97,99,116,115,
      32,97,114,101,32,116,104,101,32,84,82,85,84,72,46,10,10,32,32,32,32,91,67,79,78,86,69,82,
      83,65,84,73,79,78,32,72,73,83,84,79,82,89,93,10,32,32,32,32>>
\* brain2.py:56-58: "\n\n    [PATIENT FACTS (ARTHUR'S PORTFOLIO)]\n    "
brain2_P2 ==
    <<10,10,32,32,32,32,91,80,65,84,73,69,78,84,32,70,65,67,84,83,32,40,65,82,84,72,85,82,39,83,
      32,80,79,82,84,70,79,76,73,79,41,93,10,32,32,32,32>>
\* brain2.py:59-61: "\n\n    [GENERAL RECOVERY RULES]\n    "
brain2_P3 ==
    <<10,10,32,32,32,32,91,71,69,78,69,82,65,76,32,82,69,67,79,86,69,82,89,32,82,85,76,69,83,93,
      10,32,32,32,32>>
\* brain2.py:62-63: "\n\n    USER QUESTION: "
brain2_P4 ==
    <<10,10,32,32,32,32,85,83,69,82,32,81,85,69,83,84,73,79,78,58,32>>
\* brain2.py:64: "\n    ASSISTANT RESPONSE (Be direct and fact-based):"
brain2_P5 ==
    <<10,32,32,32,32,65,83,83,73,83,84,65,78,84,32,82,69,83,80,79,78,83,69,32,40,66,101,32,100,
      105,114,101,99,116,32,97,110,100,32,102,97,99,116,45,98,97,115,101,100,41,58>>
SRC_portfolio ==
    <<109,101,100,105,99,97,108,95,100,111,99,115,47,65,114,116,104,117,114,95,80,111,114,116,
      102,111,108,105,111,46,112,100,102>>
SRC_guide ==
    <<109,101,100,105,99,97,108,95,100,111,99,115,47,114,101,99,111,118,101,114,121,95,103,117,
      105,100,101,46,112,100,102>>
SRC_personal ==
    <<109,101,100,105,99,97,108,95,100,111,99,115,47,112,101,114,115,111,110,97,108,95,110,111,
      116,101,115,46,112,100,102>>
\* a source name with 'portfolio' and 'Person' in the other case: "medical_docs/old_portfolio_Person.pdf"
SRC_lower ==
    <<109,101,100,105,99,97,108,95,100,111,99,115,47,111,108,100,95,112,111,114,116,102,111,108,
      105,111,95,80,101,114,115,111,110,46,112,100,102>>
\* the text of a chunk: "Old index"
PC_old ==
    <<79,108,100,32,105,110,100,101,120>>
\* brain.py:19: ".pdf"
DOT_PDF ==
    <<46,112,100,102>>
\* brain.py:38: "all-MiniLM-L6-v2"
EMB_MODEL ==
    <<97,108,108,45,77,105,110,105,76,77,45,76,54,45,118,50>>
\* a file of medical_docs: "recovery_guide.pdf"
FILE_guide ==
    <<114,101,99,111,118,101,114,121,95,103,117,105,100,101,46,112,100,102>>
\* a file of medical_docs: "Arthur_Portfolio.pdf"
FILE_portfolio ==
    <<65,114,116,104,117,114,95,80,111,114,116,102,111,108,105,111,46,112,100,102>>
\* a file of medical_docs: "readme.txt"
FILE_readme ==
    <<114,101,97,100,109,101,46,116,120,116>>
PC_facts ==
    <<68,105,115,99,104,97,114,103,101,100,32,51,32,77,97,121>>
PC_rules ==
    <<82,101,115,116,32,116,119,111,32,119,101,101,107,115>>
PC_notes ==
    <<65,108,108,101,114,103,105,99,32,116,111,32,112,101,110,105,99,105,108,108,105,110>>
LLM_ANSWER ==
    <<84,97,107,101,32,114,101,115,116,46>>

\* google_TT.py:47: "ml"
TAG_ml ==
    <<109,108>>
\* google_TT.py:49: "en"
TAG_en ==
    <<101,110>>
\* google_TT.py:103: "Medical query: "
TT_PROMPT_MEDICAL_HEAD ==
    <<77,101,100,105,99,97,108,32,113,117,101,114,121,58,32>>
\* google_TT.py:103: "\n\nProvide a brief, helpful response:"
TT_PROMPT_MEDICAL_TAIL ==
    <<10,10,80,114,111,118,105,100,101,32,97,32,98,114,105,101,102,44,32,104,101,108,112,102,
      117,108,32,114,101,115,112,111,110,115,101,58>>
\* google_TT.py:105: "Technical question: "
TT_PROMPT_TECHNICAL_HEAD ==
    <<84,101,99,104,110,105,99,97,108,32,113,117,101,115,116,105,111,110,58,32>>
\* google_TT.py:105: "\n\nProvide a clear explanation:"
TT_PROMPT_TECHNICAL_TAIL ==
    <<10,10,80,114,111,118,105,100,101,32,97,32,99,108,101,97,114,32,101,120,112,108,97,110,97,
      116,105,111,110,58>>
\* google_TT.py:107: "Question: "
TT_PROMPT_GENERAL_HEAD ==
    <<81,117,101,115,116,105,111,110,58,32>>
\* google_TT.py:107: "\n\nProvide a helpful response:"
TT_PROMPT_GENERAL_TAIL ==
    <<10,10,80,114,111,118,105,100,101,32,97,32,104,101,108,112,102,117,108,32,114,101,115,112,
      111,110,115,101,58>>
\* google_TT.py:110: "http://localhost:11434/api/generate"
OLLAMA_URL ==
    <<104,116,116,112,58,47,47,108,111,99,97,108,104,111,115,116,58,49,49,52,51,52,47,97,112,
      105,47,103,101,110,101,114,97,116,101>>
\* google_TT.py:112: "llama2"
OLLAMA_MODEL ==
    <<108,108,97,109,97,50>>
\* google_TT.py:136: "I understand you're not feeling well. Please consult a healthcare provider for proper medical advice."
FALLBACK_SYMPTOM ==
    <<73,32,117,110,100,101,114,115,116,97,110,100,32,121,111,117,39,114,101,32,110,111,116,32,
      102,101,101,108,105,110,103,32,119,101,108,108,46,32,80,108,101,97,115,101,32,99,111,110,
      115,117,108,116,32,97,32,104,101,97,108,116,104,99,97,114,101,32,112,114,111,118,105,100,
      101,114,32,102,111,114,32,112,114,111,112,101,114,32,109,101,100,105,99,97,108,32,97,100,
      118,105,99,101,46>>
\* google_TT.py:138: "Please consult a doctor or pharmacist about medications. They can provide proper guidance."
FALLBACK_MEDICATION ==
    <<80,108,101,97,115,101,32,99,111,110,115,117,108,116,32,97,32,100,111,99,116,111,114,32,
      111,114,32,112,104,97,114,109,97,99,105,115,116,32,97,98,111,117,116,32,109,101,100,105,
      99,97,116,105,111,110,115,46,32,84,104,101,121,32,99,97,110,32,112,114,111,118,105,100,
      101,32,112,114,111,112,101,114,32,103,117,105,100,97,110,99,101,46>>
\* google_TT.py:140: "For medical concerns, please consult a qualified healthcare professional."
FALLBACK_MEDICAL ==
    <<70,111,114,32,109,101,100,105,99,97,108,32,99,111,110,99,101,114,110,115,44,32,112,108,
      101,97,115,101,32,99,111,110,115,117,108,116,32,97,32,113,117,97,108,105,102,105,101,100,
      32,104,101,97,108,116,104,99,97,114,101,32,112,114,111,102,101,115,115,105,111,110,97,108,
      46>>
\* google_TT.py:143: "I'm here to help with technical questions. Could you provide more details about what you need help with?"
FALLBACK_TECHNICAL ==
    <<73,39,109,32,104,101,114,101,32,116,111,32,104,101,108,112,32,119,105,116,104,32,116,101,
      99,104,110,105,99,97,108,32,113,117,101,115,116,105,111,110,115,46,32,67,111,117,108,100,
      32,121,111,117,32,112,114,111,118,105,100,101,32,109,111,114,101,32,100,101,116,97,105,
      108,115,32,97,98,111,117,116,32,119,104,97,116,32,121,111,117,32,110,101,101,100,32,104,
      101,108,112,32,119,105,116,104,63>>
\* google_TT.py:146: "I'm here to help! Could you provide more details about your question?"
FALLBACK_GENERAL ==
    <<73,39,109,32,104,101,114,101,32,116,111,32,104,101,108,112,33,32,67,111,117,108,100,32,
      121,111,117,32,112,114,111,118,105,100,101,32,109,111,114,101,32,100,101,116,97,105,108,
      115,32,97,98,111,117,116,32,121,111,117,114,32,113,117,101,115,116,105,111,110,63>>
\* google_TT.py:135: "fever"
KW_fever ==
    <<102,101,118,101,114>>
\* google_TT.py:135: "pain"
KW_pain ==
    <<112,97,105,110>>
\* google_TT.py:135: "sick"
KW_sick ==
    <<115,105,99,107>>
\* google_TT.py:135: "ill"
KW_ill ==
    <<105,108,108>>
\* google_TT.py:137: "medicine"
KW_medicine ==
    <<109,101,100,105,99,105,110,101>>
\* google_TT.py:137: "drug"
KW_drug ==
    <<100,114,117,103>>
\* google_TT.py:137: "medication"
KW_medication ==
    <<109,101,100,105,99,97,116,105,111,110>>
\* google_att.py:215: "Medical query: "
ATT_PROMPT_HEAD ==
    <<77,101,100,105,99,97,108,32,113,117,101,114,121,58,32>>
\* google_att.py:215: "\nBrief helpful response:"
ATT_PROMPT_TAIL ==
    <<10,66,114,105,101,102,32,104,101,108,112,102,117,108,32,114,101,115,112,111,110,115,101,
      58>>
\* google_att.py:306: "I understand your concern. Please consult a healthcare provider."
ATT_FALLBACK ==
    <<73,32,117,110,100,101,114,115,116,97,110,100,32,121,111,117,114,32,99,111,110,99,101,114,
      110,46,32,80,108,101,97,115,101,32,99,111,110,115,117,108,116,32,97,32,104,101,97,108,116,
      104,99,97,114,101,32,112,114,111,118,105,100,101,114,46>>
\* unified_communication_bot.py:118: "Audio input not available"
ERR_AUDIO_INPUT ==
    <<65,117,100,105,111,32,105,110,112,117,116,32,110,111,116,32,97,118,97,105,108,97,98,108,
      101>>
\* unified_communication_bot.py:125: "Audio transcription failed"
ERR_TRANSCRIPTION ==
    <<65,117,100,105,111,32,116,114,97,110,115,99,114,105,112,116,105,111,110,32,102,97,105,108,
      101,100>>
\* unified_communication_bot.py:149: "Text processing failed"
ERR_TEXT_FAILED ==
    <<84,101,120,116,32,112,114,111,99,101,115,115,105,110,103,32,102,97,105,108,101,100>>
\* unified_communication_bot.py:158: "Text processing not available"
ERR_TEXT_UNAVAILABLE ==
    <<84,101,120,116,32,112,114,111,99,101,115,115,105,110,103,32,110,111,116,32,97,118,97,105,
      108,97,98,108,101>>
\* unified_communication_bot.py:164: "Audio output not available, returning text only"
WARN_AUDIO_OUTPUT ==
    <<65,117,100,105,111,32,111,117,116,112,117,116,32,110,111,116,32,97,118,97,105,108,97,98,
      108,101,44,32,114,101,116,117,114,110,105,110,103,32,116,101,120,116,32,111,110,108,121>>
\* unified_communication_bot.py:173: "Audio generation failed"
WARN_AUDIO_FAILED ==
    <<65,117,100,105,111,32,103,101,110,101,114,97,116,105,111,110,32,102,97,105,108,101,100>>
\* google_att.py:278: "Transcription failed"
ERR_ATT_TRANSCRIPTION ==
    <<84,114,97,110,115,99,114,105,112,116,105,111,110,32,102,97,105,108,101,100>>
\* a translation into English that holds a red flag: "I have chest pain"
EN_CHEST_PAIN ==
    <<73,32,104,97,118,101,32,99,104,101,115,116,32,112,97,105,110>>
\* a translation into English: "hello"
EN_HELLO ==
    <<104,101,108,108,111>>
\* a translation into Malayalam: "\u0d28\u0d2e\u0d38\u0d4d\u0d15\u0d3e\u0d30\u0d02"
ML_NAMASKARAM ==
    <<3368,3374,3384,3405,3349,3390,3376,3330>>
\* an audio file path: "audio_input/q.mp3"
AUDIO_PATH ==
    <<97,117,100,105,111,95,105,110,112,117,116,47,113,46,109,112,51>>
\* google_att.py:241: "audio_output/response_1.mp3"
AUDIO_OUT ==
    <<97,117,100,105,111,95,111,117,116,112,117,116,47,114,101,115,112,111,110,115,101,95,49,46,
      109,112,51>>
\* google_TT.py:239: "conversations/conversation_1.txt"
SAVED_FILE ==
    <<99,111,110,118,101,114,115,97,116,105,111,110,115,47,99,111,110,118,101,114,115,97,116,
      105,111,110,95,49,46,116,120,116>>
\* datetime.now().isoformat(): "2024-01-01T00:00:00"
TIMESTAMP ==
    <<50,48,50,52,45,48,49,45,48,49,84,48,48,58,48,48,58,48,48>>

\* google_att.py:114: "transcripts/transcript_1.txt"
TRANSCRIPT_FILE ==
    <<116,114,97,110,115,99,114,105,112,116,115,47,116,114,97,110,115,99,114,105,112,116,95,49,
      46,116,120,116>>

\* str(e) of the TypeError raised at google_TT.py:46: "'NoneType' object is not iterable"
EXC_MESSAGE ==
    <<39,78,111,110,101,84,121,112,101,39,32,111,98,106,101,99,116,32,105,115,32,110,111,116,32,
      105,116,101,114,97,98,108,101>>

----------------------------------------------------------------------------
(* The input space. *)

Fragments ==
    {F_ChestPain, F_unconscious, F_FLUTTERING, F_fever, F_medicine, F_hi,
     F_vedana, F_chillu, F_eacute}

RECURSIVE TextsUpTo(_)
TextsUpTo(n) ==
    IF n = 0 THEN {EMPTY}
    ELSE LET shorter == TextsUpTo(n - 1)
         IN  shorter \cup {t \o f : t \in shorter, f \in Fragments}

\* Every text a user may type: at most MaxFrags fragments.
Texts == TextsUpTo(MaxFrags)

\* A stored chunk: its text and its metadata (source is None when the
\* metadata has no 'source' key).
Doc(content, source) == [page_content |-> content, metadata |-> [source |-> source]]

Docs ==
    {Doc(PC_facts, SRC_portfolio), Doc(PC_rules, SRC_guide),
     Doc(PC_notes, SRC_personal), Doc(PC_rules, None), Doc(PC_old, SRC_lower)}

RECURSIVE SeqsUpTo(_, _)
SeqsUpTo(S, n) ==
    IF n = 0 THEN {<<>>}
    ELSE LET shorter == SeqsUpTo(S, n - 1)
         IN  shorter \cup {Append(s, x) : s \in shorter, x \in S}

\* What similarity_search(query, k=k) may return: at most k chunks.
SearchResults(k) == SeqsUpTo(Docs, Min(k, MaxDocs))

----------------------------------------------------------------------------
(* src/brain/brain.py *)

\* brain.py:45
brain_red_flags == {chest_pain, bleeding, breathless, unconscious}

\* brain.py:54
brain_k == 2

\* The safety gate as it would be without .lower(): case-sensitive.
RedFlagHit_CaseSensitive(red_flags, user_query) ==
    \E flag \in red_flags : Contains(user_query, flag)

\* any(flag in user_query.lower() for flag in red_flags)
RedFlagHit(red_flags, user_query) ==
    \E flag \in red_flags : Contains(lower(user_query), flag)

\* "\n\n".join(parts)
RECURSIVE Join(_, _)
Join(sep, parts) ==
    IF Len(parts) = 0 THEN EMPTY
    ELSE IF Len(parts) = 1 THEN parts[1]
    ELSE parts[1] \o sep \o Join(sep, Tail(parts))

\* What a call gives back: the value returned, whether it raised instead,
\* and the external calls it made.
Ret(value, l) == [ret |-> value, raised |-> FALSE, log |-> l]
Raise(l) == [ret |-> None, raised |-> TRUE, log |-> l]

\* brain.py:61
brain_prompt(context, user_query) ==
    brain_PROMPT_HEAD \o context \o brain_PROMPT_QUESTION \o user_query

\* brain.py:59-63: the context is built and the LLM invoked; an exception of
\* llm.invoke propagates to the caller.
brain_answer(user_query, docs, l1) ==
    LET context == Join(brain_JOIN, [i \in 1..Len(docs) |-> docs[i].page_content])
        l2      == Append(l1, Ev("llm.invoke", brain_prompt(context, user_query), None))
    IN  {Ret(LLM_ANSWER, l2), Raise(l2)}

\* The function as it would be with the knowledge-base check before the
\* safety gate.
brain_query_post_discharge_guardian_MemoryFirst(user_query, exists) ==
    IF ~exists THEN {Ret(brain_NO_MEMORY, <<>>)}
    ELSE IF RedFlagHit(brain_red_flags, user_query) THEN {Ret(brain_EMERGENCY, <<>>)}
    ELSE {Raise(<<Ev("similarity_search", user_query, RAISED)>>)}
         \cup UNION {IF docs = <<>>
                         THEN {Ret(brain_NO_MATCH, <<SearchEv(user_query, docs)>>)}
                     ELSE brain_answer(user_query, docs, <<SearchEv(user_query, docs)>>) :
                     docs \in SearchResults(brain_k)}

\* brain.py:43-63, query_post_discharge_guardian(user_query): every outcome
\* the call can have; exists is os.path.exists("./hospital_knowledge_base").
\* db.similarity_search either raises or returns at most k chunks.
brain_query_post_discharge_guardian(user_query, exists) ==
    IF RedFlagHit(brain_red_flags, user_query) THEN {Ret(brain_EMERGENCY, <<>>)}
    ELSE IF ~exists THEN {Ret(brain_NO_MEMORY, <<>>)}
    ELSE {Raise(<<Ev("similarity_search", user_query, RAISED)>>)}
         \cup UNION {IF docs = <<>>
                         THEN {Ret(brain_NO_MATCH, <<SearchEv(user_query, docs)>>)}
                     ELSE brain_answer(user_query, docs, <<SearchEv(user_query, docs)>>) :
                     docs \in SearchResults(brain_k)}

\* f.endswith(".pdf")
endswith(s, suffix) ==
    Len(s) >= Len(suffix) /\ SubSeq(s, Len(s) - Len(suffix) + 1, Len(s)) = suffix

\* brain.py:19: [f for f in os.listdir(docs_folder) if f.endswith(".pdf")]
pdf_files(listing) == SelectSeq(listing, LAMBDA f : endswith(f, DOT_PDF))

\* brain.py:25-28: what loading and splitting one PDF may give: no chunk, one
\* chunk or two, each with the file as its source.
ChunksOf(filename) ==
    {<<>>, <<Doc(PC_facts, filename)>>, <<Doc(PC_facts, filename), Doc(PC_rules, filename)>>}

\* One PDF read and split, in the log, with the chunks it gave.
LoadEv(filename, chunks) == [op |-> "PyPDFLoader.load", arg |-> filename, chunks |-> chunks]

\* Chroma.from_documents in the log: the chunks handed over, whether the
\* call raised, and whether the store directory was written.
StoreEv(chunks, out, persisted) ==
    [op |-> "Chroma.from_documents", chunks |-> chunks, out |-> out, persisted |-> persisted]

\* The loop as it would be if a file that cannot be read ended the reading.
RECURSIVE build_read_files_StopAtFailure(_, _, _)
build_read_files_StopAtFailure(files, all_chunks, l) ==
    IF files = <<>> THEN {[all_chunks |-> all_chunks, log |-> l]}
    ELSE {[all_chunks |-> all_chunks,
           log |-> Append(l, Ev("PyPDFLoader.load", files[1], RAISED))]}
         \cup UNION {build_read_files_StopAtFailure(Tail(files), all_chunks \o chunks,
                                                    Append(l, LoadEv(files[1], chunks))) :
                       chunks \in ChunksOf(files[1])}

\* brain.py:22-31: the files are read one after the other; a file whose
\* loading or splitting raises is reported and skipped, the chunks of the
\* others are appended to all_chunks.
RECURSIVE build_read_files(_, _, _)
build_read_files(files, all_chunks, l) ==
    IF files = <<>> THEN {[all_chunks |-> all_chunks, log |-> l]}
    ELSE build_read_files(Tail(files), all_chunks,
                          Append(l, Ev("PyPDFLoader.load", files[1], RAISED)))
         \cup UNION {build_read_files(Tail(files), all_chunks \o chunks,
                                      Append(l, LoadEv(files[1], chunks))) :
                       chunks \in ChunksOf(files[1])}

\* brain.py:33-40: nothing collected, nothing written; otherwise the
\* embedding model is loaded and the store written.  Neither call is inside
\* a try; a write that raises may or may not have created the directory.
build_store(all_chunks, l) ==
    IF all_chunks = <<>> THEN {Ret(None, l)}
    ELSE {Raise(Append(l, Ev("HuggingFaceEmbeddings", EMB_MODEL, RAISED))),
          Ret(None, Append(l, StoreEv(all_chunks, None, TRUE)))}
         \cup {Raise(Append(l, StoreEv(all_chunks, RAISED, persisted))) :
                 persisted \in BOOLEAN}

\* brain.py:9-40, build_medical_database(): every outcome of the call, for a
\* medical_docs folder that exists or not and lists the files of `listing`.
build_medical_database(folder_exists, listing) ==
    IF ~folder_exists THEN {Ret(None, <<>>)}
    ELSE UNION {build_store(read.all_chunks, read.log) :
                  read \in build_read_files(pdf_files(listing), <<>>, <<>>)}

----------------------------------------------------------------------------
(* src/brain/brain2.py *)

\* brain2.py:26
brain2_red_flags == {chest_pain, bleeding, breathless, heartbeat, fluttering}

\* brain2.py:32
brain2_k == 5

\* brain2.py:53, history[-1500:]
HISTORY_BUDGET == 1500

\* doc.metadata.get('source', '')
metadata_source(doc) ==
    IF doc.metadata.source = None THEN EMPTY ELSE doc.metadata.source

\* The bucket test as it would be if the case of the source name did not count.
is_patient_fact_AnyCase(doc) ==
    Contains(lower(metadata_source(doc)), lower(Portfolio)) \/ Contains(lower(metadata_source(doc)), person)

\* brain2.py:40
is_patient_fact(doc) ==
    Contains(metadata_source(doc), Portfolio) \/ Contains(metadata_source(doc), person)

\* brain2.py:35-43: the two buckets, each chunk prefixed by "\n".
RECURSIVE patient_facts(_)
patient_facts(docs) ==
    IF docs = <<>> THEN EMPTY
    ELSE (IF is_patient_fact(docs[1]) THEN <<10>> \o docs[1].page_content ELSE EMPTY)
         \o patient_facts(Tail(docs))

RECURSIVE general_rules(_)
general_rules(docs) ==
    IF docs = <<>> THEN EMPTY
    ELSE (IF is_patient_fact(docs[1]) THEN EMPTY ELSE <<10>> \o docs[1].page_content)
         \o general_rules(Tail(docs))

\* brain2.py:47-62
brain2_prompt(user_query, history, docs) ==
    brain2_P1 \o LastChars(history, HISTORY_BUDGET) \o brain2_P2 \o patient_facts(docs)
    \o brain2_P3 \o general_rules(docs) \o brain2_P4 \o user_query \o brain2_P5

\* brain2.py:47-64: the prompt is built and the LLM invoked.
brain2_answer(user_query, history, docs, l1) ==
    LET l2 == Append(l1, Ev("llm.invoke", brain2_prompt(user_query, history, docs), None))
    IN  {Ret(LLM_ANSWER, l2), Raise(l2)}

\* brain2.py:24-64, query_post_discharge_guardian(user_query, history): every
\* outcome the call can have.  db is the module-level handle, None when the
\* directory was missing at start-up (brain2.py:16-21): db.similarity_search
\* then raises AttributeError before any lookup.
brain2_query_post_discharge_guardian(user_query, history, exists) ==
    IF RedFlagHit(brain2_red_flags, user_query) THEN {Ret(brain2_EMERGENCY, <<>>)}
    ELSE IF ~exists THEN {Raise(<<>>)}
    ELSE {Raise(<<Ev("similarity_search", user_query, RAISED)>>)}
         \cup UNION {brain2_answer(user_query, history, docs, <<SearchEv(user_query, docs)>>) :
                        docs \in SearchResults(brain2_k)}

----------------------------------------------------------------------------
(* External services of the bots. *)

\* Marks an HTTP answer whose status is not 200.
HTTP_NON200 == <<-3>>

\* Marks an HTTP answer with status 200 whose body is not JSON or has no
\* "response" key: response.json()["response"] raises.
HTTP_MALFORMED == <<-4>>

\* What GoogleTranslator.translate(text) may give back for a target
\* language: nothing (None or ''), the text unchanged, or a translation.
TranslatorReturns(text, target) ==
    {None, EMPTY, text}
    \cup (IF target = TAG_ml THEN {ML_NAMASKARAM} ELSE {EN_HELLO, EN_CHEST_PAIN})

\* ... or it raises.
TranslatorOutcomes(text, target) == {RAISED} \cup TranslatorReturns(text, target)

\* What the generate endpoint may do with a request: the call raises
\* (connection refused, timeout after 30 s), it answers with another status
\* than 200, with a malformed body, with "response": null, or with a text.
OllamaOutcomes == {RAISED, HTTP_NON200, HTTP_MALFORMED, None, LLM_ANSWER}

----------------------------------------------------------------------------
(* src/google_TT.py: TextToTextBot *)

\* google_TT.py:44 (the same literal is at google_att.py:186): the letters
\* U+0D05..U+0D39 without U+0D0C, U+0D0D, U+0D11, U+0D29.
malayalam_chars == (3333..3339) \cup (3342..3344) \cup (3346..3368) \cup (3370..3385)

\* The Malayalam Unicode block, U+0D00..U+0D7F.
MalayalamBlock == 3328..3455

\* The text has a character of the Malayalam block.
BlockHasMalayalamChar(text) == \E i \in 1..Len(text) : text[i] \in MalayalamBlock

\* The test as it would be with all() for any().
HasMalayalamChar_All(text) == \A i \in 1..Len(text) : text[i] \in malayalam_chars

\* any(c in malayalam_chars for c in text)
HasMalayalamChar(text) == \E i \in 1..Len(text) : text[i] \in malayalam_chars

\* detect_language as it would be with 'ml' returned from the except branch.
TT_detect_language_MlOnError(text) ==
    IF HasMalayalamChar(text) THEN {Ret(TAG_ml, <<>>)}
    ELSE IF isascii(text) THEN {Ret(TAG_en, <<>>)}
    ELSE {Ret(IF detected = RAISED THEN TAG_ml
              ELSE IF detected # text THEN TAG_ml ELSE TAG_en,
              <<Ev("auto.translate", text, detected)>>) :
            detected \in TranslatorOutcomes(text, TAG_en)}

\* google_TT.py:42-56, detect_language(text).  The bare except catches
\* everything the auto-detect translation raises.
TT_detect_language(text) ==
    IF HasMalayalamChar(text) THEN {Ret(TAG_ml, <<>>)}
    ELSE IF isascii(text) THEN {Ret(TAG_en, <<>>)}
    ELSE {Ret(IF detected = RAISED THEN TAG_en
              ELSE IF detected # text THEN TAG_ml ELSE TAG_en,
              <<Ev("auto.translate", text, detected)>>) :
            detected \in TranslatorOutcomes(text, TAG_en)}

\* The except branch as it would be with `return None`.
OrOriginal_NoneOnError(translated, text) ==
    IF translated = RAISED THEN None ELSE IF Falsy(translated) THEN text ELSE translated

\* google_TT.py:60-65 (and 69-74, 78-83): translated if translated else
\* text; text when the service raised.
OrOriginal(translated, text) ==
    IF translated = RAISED \/ Falsy(translated) THEN text ELSE translated

\* google_TT.py:58-65, translate_to_malayalam(english_text)
TT_translate_to_malayalam(english_text) ==
    {Ret(OrOriginal(translated, english_text),
         <<Ev("en_to_ml.translate", english_text, translated)>>) :
       translated \in TranslatorOutcomes(english_text, TAG_ml)}

\* google_TT.py:67-74, translate_to_english(malayalam_text)
TT_translate_to_english(malayalam_text) ==
    {Ret(OrOriginal(translated, malayalam_text),
         <<Ev("ml_to_en.translate", malayalam_text, translated)>>) :
       translated \in TranslatorOutcomes(malayalam_text, TAG_en)}

\* google_TT.py:76-83, auto_translate_to_english(text)
TT_auto_translate_to_english(text) ==
    {Ret(OrOriginal(translated, text),
         <<Ev("auto.translate", text, translated)>>) :
       translated \in TranslatorOutcomes(text, TAG_en)}

\* google_TT.py:102-107: the prompt depends on the context.
TT_prompt(english_text, context) ==
    IF context = "medical"
        THEN TT_PROMPT_MEDICAL_HEAD \o english_text \o TT_PROMPT_MEDICAL_TAIL
    ELSE IF context = "technical"
        THEN TT_PROMPT_TECHNICAL_HEAD \o english_text \o TT_PROMPT_TECHNICAL_TAIL
    ELSE TT_PROMPT_GENERAL_HEAD \o english_text \o TT_PROMPT_GENERAL_TAIL

\* google_TT.py:116
OLLAMA_TIMEOUT == 30

\* The request as it would be with a model chosen by the context.
TT_request_ModelByContext(english_text, context) ==
    [url |-> OLLAMA_URL,
     model |-> IF context = "medical" THEN OLLAMA_MODEL \o <<45, 109, 101, 100>>
               ELSE OLLAMA_MODEL,
     prompt |-> TT_prompt(english_text, context),
     stream |-> FALSE, timeout |-> OLLAMA_TIMEOUT]

\* google_TT.py:109-117: what is posted.
TT_request(english_text, context) ==
    [url |-> OLLAMA_URL, model |-> OLLAMA_MODEL, prompt |-> TT_prompt(english_text, context),
     stream |-> FALSE, timeout |-> OLLAMA_TIMEOUT]

\* query_ollama as it would be with '' returned for a non-200 status.
TT_ollama_value_EmptyOnStatus(outcome) ==
    IF outcome \in {RAISED, HTTP_MALFORMED} THEN None
    ELSE IF outcome = HTTP_NON200 THEN EMPTY
    ELSE outcome

\* google_TT.py:119-126: the value query_ollama returns for an outcome of
\* the POST.
TT_ollama_value(outcome) ==
    IF outcome \in {RAISED, HTTP_NON200, HTTP_MALFORMED} THEN None ELSE outcome

\* query_ollama as it would be if it repeated a request that got no answer.
TT_query_ollama_Retrying(english_text, context, enabled) ==
    IF ~enabled THEN {Ret(None, <<>>)}
    ELSE {Ret(TT_ollama_value(first), <<PostEv(TT_request(english_text, context), first)>>) :
            first \in {LLM_ANSWER}}
         \cup {Ret(TT_ollama_value(second),
                   <<PostEv(TT_request(english_text, context), first),
                     PostEv(TT_request(english_text, context), second)>>) :
                 first \in OllamaOutcomes \ {LLM_ANSWER}, second \in OllamaOutcomes}

\* google_TT.py:89-126, query_ollama(english_text, context); enabled is
\* self.use_ollama.
TT_query_ollama(english_text, context, enabled) ==
    IF ~enabled THEN {Ret(None, <<>>)}
    ELSE {Ret(TT_ollama_value(outcome),
              <<PostEv(TT_request(english_text, context), outcome)>>) :
            outcome \in OllamaOutcomes}

\* any(word in query_lower for word in words)
AnyWord(words, query_lower) == \E word \in words : Contains(query_lower, word)

\* get_fallback_response as it would be with the medication keywords tested
\* before the symptom keywords.
TT_get_fallback_response_MedicationFirst(english_query, context) ==
    LET query_lower == lower(english_query)
    IN  IF context = "medical"
            THEN IF AnyWord({KW_medicine, KW_drug, KW_medication}, query_lower)
                     THEN FALLBACK_MEDICATION
                 ELSE IF AnyWord({KW_fever, KW_pain, KW_sick, KW_ill}, query_lower)
                     THEN FALLBACK_SYMPTOM
                 ELSE FALLBACK_MEDICAL
        ELSE IF context = "technical" THEN FALLBACK_TECHNICAL
        ELSE FALLBACK_GENERAL

\* google_TT.py:128-146, get_fallback_response(english_query, context)
TT_get_fallback_response(english_query, context) ==
    LET query_lower == lower(english_query)
    IN  IF context = "medical"
            THEN IF AnyWord({KW_fever, KW_pain, KW_sick, KW_ill}, query_lower)
                     THEN FALLBACK_SYMPTOM
                 ELSE IF AnyWord({KW_medicine, KW_drug, KW_medication}, query_lower)
                     THEN FALLBACK_MEDICATION
                 ELSE FALLBACK_MEDICAL
        ELSE IF context = "technical" THEN FALLBACK_TECHNICAL
        ELSE FALLBACK_GENERAL

\* The fallback set: every string get_fallback_response can return.
FallbackSet ==
    {FALLBACK_SYMPTOM, FALLBACK_MEDICATION, FALLBACK_MEDICAL, FALLBACK_TECHNICAL,
     FALLBACK_GENERAL}

\* google_TT.py:207-219: the conversation result.
TT_result(user_input, user_language, english_query, ai_response, final_response, respond_in_malayalam, context) ==
    [success |-> TRUE,
     user_input |-> user_input,
     user_language |-> user_language,
     english_query |-> english_query,
     ai_response_english |-> ai_response,
     final_response |-> final_response,
     response_language |-> IF respond_in_malayalam THEN TAG_ml ELSE TAG_en,
     context |-> context,
     timestamp |-> TIMESTAMP]

\* Step 4 as it would be if the response were translated whatever was asked.
TT_process_text_step4_AlwaysTranslates(user_input, context, respond_in_malayalam, user_language, english_query, ai_response, l) ==
    {Ret(TT_result(user_input, user_language, english_query, ai_response,
                   m.ret, respond_in_malayalam, context), l \o m.log) :
       m \in TT_translate_to_malayalam(ai_response)}

\* google_TT.py:193-219, step 4: the response is translated if asked for.
TT_process_text_step4(user_input, context, respond_in_malayalam, user_language, english_query, ai_response, l) ==
    IF respond_in_malayalam
        THEN {Ret(TT_result(user_input, user_language, english_query, ai_response,
                            m.ret, respond_in_malayalam, context), l \o m.log) :
                m \in TT_translate_to_malayalam(ai_response)}
    ELSE {Ret(TT_result(user_input, user_language, english_query, ai_response,
                        ai_response, respond_in_malayalam, context), l)}

\* google_TT.py:183-191, step 3: the backend is asked, the fallback taken
\* when it gave None.
TT_process_text_step3(user_input, context, respond_in_malayalam, enabled, user_language, english_query, l) ==
    UNION {TT_process_text_step4(user_input, context, respond_in_malayalam,
                                 user_language, english_query,
                                 IF a.ret = None
                                     THEN TT_get_fallback_response(english_query, context)
                                 ELSE a.ret,
                                 l \o a.log) :
             a \in TT_query_ollama(english_query, context, enabled)}

\* google_TT.py:174-181, step 2: a Malayalam input is translated to English.
TT_process_text_step2(user_input, context, respond_in_malayalam, enabled, user_language, l) ==
    IF user_language = TAG_ml
        THEN UNION {TT_process_text_step3(user_input, context, respond_in_malayalam,
                                          enabled, user_language, e.ret, l \o e.log) :
                      e \in TT_translate_to_english(user_input)}
    ELSE TT_process_text_step3(user_input, context, respond_in_malayalam, enabled,
                               user_language, user_input, l)

\* google_TT.py:152-219, process_text(user_input, context,
\* respond_in_malayalam): every outcome the call can have.  An input that is
\* no string makes detect_language raise TypeError (google_TT.py:46).
TT_process_text(user_input, context, respond_in_malayalam, enabled) ==
    IF user_input = None THEN {Raise(<<>>)}
    ELSE
    UNION {TT_process_text_step2(user_input, context, respond_in_malayalam, enabled,
                                 d.ret, d.log) :
             d \in TT_detect_language(user_input)}

\* google_TT.py:225-283, save_conversation(conversation_result): the file
\* name, or None when writing failed (the exception is caught).
TT_save_conversation(conversation_result) ==
    {Ret(out, <<SaveEv(conversation_result, out)>>) :
       out \in {SAVED_FILE, None}}

\* save_conversation as it would be if it recorded the file name in the
\* conversation result it was given.
TT_conversation_after_save_Marked(conversation_result, filename) ==
    Put(conversation_result, "saved_file", filename)

\* google_TT.py:225-283: save_conversation only reads conversation_result;
\* this is the dict the caller still holds after the call.
TT_conversation_after_save(conversation_result, filename) == conversation_result

----------------------------------------------------------------------------
(* src/google_att.py: BidirectionalMalayalamBot *)

\* Python's str.strip() removes leading and trailing white space.
IsSpace(c) == c \in {9, 10, 13, 32}

RECURSIVE lstrip(_)
lstrip(s) == IF s # <<>> /\ IsSpace(s[1]) THEN lstrip(Tail(s)) ELSE s

RECURSIVE rstrip(_)
rstrip(s) ==
    IF s # <<>> /\ IsSpace(s[Len(s)]) THEN rstrip(SubSeq(s, 1, Len(s) - 1)) ELSE s

strip(s) == rstrip(lstrip(s))

\* What the transcriber may hear in an audio file: result["text"].
RawTranscripts == {<<32>> \o F_hi, F_vedana, <<32>> \o F_ChestPain, <<32>>}

\* google_att.py:87-92: the transcription result.
ATT_transcription(text, audio_file_path) ==
    [text |-> text, language |-> TAG_ml, audio_file |-> audio_file_path,
     timestamp |-> TIMESTAMP]

\* google_att.py:47-98, transcribe_audio(audio_file_path): None when the
\* file is missing and when the transcriber
\* raises; the stripped text otherwise.
ATT_transcribe_audio(audio_file_path) ==
    {Ret(Nothing, <<>>),
     Ret(Nothing, <<Ev("whisper.transcribe", audio_file_path, RAISED)>>)}
    \cup {Ret(ATT_transcription(strip(raw), audio_file_path),
              <<Ev("whisper.transcribe", audio_file_path, raw)>>) :
            raw \in RawTranscripts}

\* google_att.py:100-143, save_transcript(transcription_result): the file
\* name, or None when writing failed.
ATT_save_transcript(transcription_result) ==
    {Ret(out, <<Ev("save_transcript", transcription_result.text, out)>>) :
       out \in {TRANSCRIPT_FILE, None}}

\* google_att.py:184-187, detect_language(text)
ATT_detect_language(text) ==
    IF HasMalayalamChar(text) THEN TAG_ml ELSE TAG_en

\* google_att.py:189-195, translate_to_malayalam(english_text): whatever the
\* translator returned; the input when it raised.
ATT_translate_to_malayalam(english_text) ==
    {Ret(IF translated = RAISED THEN english_text ELSE translated,
         <<Ev("en_to_ml.translate", english_text, translated)>>) :
       translated \in TranslatorOutcomes(english_text, TAG_ml)}

\* google_att.py:197-203, translate_to_english(malayalam_text)
ATT_translate_to_english(malayalam_text) ==
    {Ret(IF translated = RAISED THEN malayalam_text ELSE translated,
         <<Ev("ml_to_en.translate", malayalam_text, translated)>>) :
       translated \in TranslatorOutcomes(malayalam_text, TAG_en)}

\* google_att.py:211-219: what is posted.
ATT_request(english_text) ==
    [url |-> OLLAMA_URL, model |-> OLLAMA_MODEL,
     prompt |-> ATT_PROMPT_HEAD \o fstr(english_text) \o ATT_PROMPT_TAIL,
     stream |-> FALSE, timeout |-> OLLAMA_TIMEOUT]

\* google_att.py:220-223: the status is not looked at; a body without a
\* "response" key raises inside the try.
ATT_ollama_value(outcome) ==
    IF outcome \in {RAISED, HTTP_NON200, HTTP_MALFORMED} THEN None ELSE outcome

\* google_att.py:205-223, query_ollama(english_text)
ATT_query_ollama(english_text, enabled) ==
    IF ~enabled THEN {Ret(None, <<>>)}
    ELSE {Ret(ATT_ollama_value(outcome),
              <<PostEv(ATT_request(english_text), outcome)>>) :
            outcome \in OllamaOutcomes}

\* google_att.py:229-250, generate_audio(text): the file name, or None when
\* gTTS raised; gTTS raises on a text that is None or empty.
ATT_generate_audio(text) ==
    {Ret(None, <<Ev("gTTS.save", text, RAISED)>>)}
    \cup (IF Falsy(text) THEN {}
          ELSE {Ret(AUDIO_OUT, <<Ev("gTTS.save", text, AUDIO_OUT)>>)})

\* google_att.py:277-282
ATT_failure(audio_file_path) ==
    [error |-> ERR_ATT_TRANSCRIPTION, user_audio |-> audio_file_path,
     user_text |-> None, success |-> FALSE]

\* google_att.py:325-335
ATT_result(audio_file_path, user_text, user_language, english_query, ai_response, malayalam_response, audio_output, save_transcript_file) ==
    [success |-> TRUE,
     user_audio |-> audio_file_path,
     user_text |-> user_text,
     user_language |-> user_language,
     english_query |-> english_query,
     ai_response |-> ai_response,
     malayalam_response |-> malayalam_response,
     response_audio |-> audio_output,
     transcript_saved |-> save_transcript_file]

\* google_att.py:311-335, steps 4 and 5: the response is translated to
\* Malayalam and spoken.
ATT_process_step4(audio_file_path, save_transcript_file, user_text, user_language, english_query, ai_response, l) ==
    UNION {{Ret(ATT_result(audio_file_path, user_text, user_language, english_query,
                           ai_response, m.ret, g.ret, save_transcript_file),
                l \o m.log \o g.log) :
              g \in ATT_generate_audio(m.ret)} :
             m \in ATT_translate_to_malayalam(ai_response)}

\* google_att.py:301-309, step 3: the backend is asked, the fixed fallback
\* taken when it gave None.
ATT_process_step3(audio_file_path, save_transcript_file, enabled, user_text, user_language, english_query, l) ==
    UNION {ATT_process_step4(audio_file_path, save_transcript_file, user_text,
                             user_language, english_query,
                             IF a.ret = None THEN ATT_FALLBACK ELSE a.ret,
                             l \o a.log) :
             a \in ATT_query_ollama(english_query, enabled)}

\* google_att.py:288-299, step 2: the language is detected and a Malayalam
\* text translated to English.
ATT_process_step2(audio_file_path, save_transcript_file, enabled, user_text, l) ==
    LET user_language == ATT_detect_language(user_text)
    IN  IF user_language = TAG_ml
            THEN UNION {ATT_process_step3(audio_file_path, save_transcript_file,
                                          enabled, user_text, user_language, e.ret,
                                          l \o e.log) :
                          e \in ATT_translate_to_english(user_text)}
        ELSE ATT_process_step3(audio_file_path, save_transcript_file, enabled,
                               user_text, user_language, user_text, l)

\* google_att.py:284-286: the transcript is saved when asked for.
ATT_process_save(audio_file_path, save_transcript_file, enabled, transcription, l) ==
    IF save_transcript_file
        THEN UNION {ATT_process_step2(audio_file_path, save_transcript_file, enabled,
                                      transcription.text, l \o s.log) :
                      s \in ATT_save_transcript(transcription)}
    ELSE ATT_process_step2(audio_file_path, save_transcript_file, enabled,
                           transcription.text, l)

\* process_audio_input as it would be if a transcript without text counted
\* as a failed transcription.
ATT_process_audio_input_EmptyFails(audio_file_path, save_transcript_file, enabled) ==
    UNION {IF t.ret = Nothing \/ t.ret.text = EMPTY
               THEN {Ret(ATT_failure(audio_file_path), t.log)}
           ELSE ATT_process_save(audio_file_path, save_transcript_file, enabled,
                                 t.ret, t.log) :
             t \in ATT_transcribe_audio(audio_file_path)}

\* google_att.py:256-335, process_audio_input(audio_file_path,
\* save_transcript_file): every outcome the call can have.
ATT_process_audio_input(audio_file_path, save_transcript_file, enabled) ==
    UNION {IF t.ret = Nothing THEN {Ret(ATT_failure(audio_file_path), t.log)}
           ELSE ATT_process_save(audio_file_path, save_transcript_file, enabled,
                                 t.ret, t.log) :
             t \in ATT_transcribe_audio(audio_file_path)}

----------------------------------------------------------------------------
(* src/unified_communication_bot.py: UnifiedCommunicationBot *)

\* The initial result as it would be if it were optimistic about success.
UNI_result_Optimistic(input_type, output_type) ==
    [success |-> TRUE, input_type |-> input_type, output_type |-> output_type,
     timestamp |-> TIMESTAMP]

\* unified_communication_bot.py:103-108
UNI_result(input_type, output_type) ==
    [success |-> FALSE, input_type |-> input_type, output_type |-> output_type,
     timestamp |-> TIMESTAMP]

\* Step 4 as it would be if it saved every conversation, asked or not.
UNI_step4_AlwaysSaves(res, save_conversation, text_available, text_result, l) ==
    {Ret(Put(Put(res, "saved_file", s.ret), "success", TRUE), l \o s.log) :
       s \in TT_save_conversation(text_result)}

\* unified_communication_bot.py:175-187, step 4: the conversation is saved
\* when asked for, and the call succeeds.  result['conversation_details'] is
\* the very dict that save_conversation was given.
UNI_step4(res, save_conversation, text_available, text_result, l) ==
    IF save_conversation /\ text_available
        THEN {Ret(Put(Put(Put(res, "conversation_details",
                                   TT_conversation_after_save(text_result, s.ret)),
                               "saved_file", s.ret),
                           "success", TRUE),
                       l \o s.log) :
                s \in TT_save_conversation(text_result)}
    ELSE {Ret(Put(res, "success", TRUE), l)}

\* Step 3 as it would be with a missing audio subsystem reported as an error.
UNI_step3_ErrorWithoutAudio(res, output_type, save_conversation, text_available, audio_available, text_result, l) ==
    IF output_type \in {"audio", "both"} /\ ~audio_available
        THEN {Ret(Put(res, "error", ERR_AUDIO_INPUT), l)}
    ELSE UNI_step4(res, save_conversation, text_available, text_result, l)

\* unified_communication_bot.py:161-173, step 3: the response is spoken when
\* audio output is asked for.
UNI_step3(res, output_type, save_conversation, text_available, audio_available, text_result, l) ==
    IF output_type \in {"audio", "both"}
        THEN IF ~audio_available
                 THEN UNI_step4(Put(res, "warning", WARN_AUDIO_OUTPUT), save_conversation,
                                text_available, text_result, l)
             ELSE UNION {UNI_step4(IF ~Falsy(g.ret)
                                       THEN Put(res, "audio_response", g.ret)
                                   ELSE Put(res, "warning", WARN_AUDIO_FAILED),
                                   save_conversation, text_available, text_result,
                                   l \o g.log) :
                           g \in ATT_generate_audio(text_result.final_response)}
    ELSE UNI_step4(res, save_conversation, text_available, text_result, l)

\* Step 2 as it would be if the text bot were asked for an English response.
UNI_step2_EnglishResponse(res0, text_input, output_type, context, save_conversation, text_available, audio_available, enabled, l) ==
    LET res == Put(res0, "user_input", text_input)
    IN  IF text_available
            THEN UNION {IF p.raised
                            THEN {Ret(Put(res, "error", EXC_MESSAGE), l \o p.log)}
                        ELSE IF ~p.ret.success
                            THEN {Ret(Put(res, "error", ERR_TEXT_FAILED), l \o p.log)}
                        ELSE UNI_step3(Put(Put(res, "text_response", p.ret.final_response),
                                           "conversation_details", p.ret),
                                       output_type, save_conversation, text_available,
                                       audio_available, p.ret, l \o p.log) :
                          p \in TT_process_text(text_input, context, FALSE, enabled)}
        ELSE {Ret(Put(res, "error", ERR_TEXT_UNAVAILABLE), l)}

\* unified_communication_bot.py:136-159, step 2: the text bot processes the
\* text, always asked to respond in Malayalam.  An exception of process_text
\* is caught at lines 189-194.
UNI_step2(res0, text_input, output_type, context, save_conversation, text_available, audio_available, enabled, l) ==
    LET res == Put(res0, "user_input", text_input)
    IN  IF text_available
            THEN UNION {IF p.raised
                            THEN {Ret(Put(res, "error", EXC_MESSAGE), l \o p.log)}
                        ELSE IF ~p.ret.success
                            THEN {Ret(Put(res, "error", ERR_TEXT_FAILED), l \o p.log)}
                        ELSE UNI_step3(Put(Put(res, "text_response", p.ret.final_response),
                                           "conversation_details", p.ret),
                                       output_type, save_conversation, text_available,
                                       audio_available, p.ret, l \o p.log) :
                          p \in TT_process_text(text_input, context, TRUE, enabled)}
        ELSE {Ret(Put(res, "error", ERR_TEXT_UNAVAILABLE), l)}

\* unified_communication_bot.py:121-130, step 1 for audio input: the audio
\* is transcribed; no transcription ends the call.
UNI_step1(res, input_data, output_type, context, save_conversation, text_available, audio_available, enabled) ==
    UNION {IF t.ret = Nothing
               THEN {Ret(Put(res, "error", ERR_TRANSCRIPTION), t.log)}
           ELSE UNI_step2(Put(res, "audio_input", input_data), t.ret.text, output_type,
                          context, save_conversation, text_available, audio_available,
                          enabled, t.log) :
             t \in ATT_transcribe_audio(input_data)}

\* communicate as it would be if audio input without the audio subsystem
\* were passed on to the text step.
UNI_communicate_AudioAsText(input_data, input_type, output_type, context, save_conversation, text_available, audio_available, enabled) ==
    LET res == UNI_result(input_type, output_type)
    IN  IF input_type = "audio" /\ audio_available
            THEN UNI_step1(res, input_data, output_type, context, save_conversation,
                           text_available, audio_available, enabled)
        ELSE UNI_step2(res, input_data, output_type, context, save_conversation,
                       text_available, audio_available, enabled, <<>>)

\* unified_communication_bot.py:76-194, communicate(input_data, input_type,
\* output_type, context, save_conversation): every outcome the call can have.
UNI_communicate(input_data, input_type, output_type, context, save_conversation, text_available, audio_available, enabled) ==
    LET res == UNI_result(input_type, output_type)
    IN  IF input_type = "audio"
            THEN IF ~audio_available
                     THEN {Ret(Put(res, "error", ERR_AUDIO_INPUT), <<>>)}
                 ELSE UNI_step1(res, input_data, output_type, context,
                                save_conversation, text_available, audio_available,
                                enabled)
        ELSE UNI_step2(res, input_data, output_type, context, save_conversation,
                       text_available, audio_available, enabled, <<>>)

----------------------------------------------------------------------------
(* src/real_time_local.py: RealTimeTranslator *)

\* At most MaxThreads playback threads are started in a run of the model.
MaxThreads == 2

\* real_time_local.py:44-45: what the transcriber hears in one cycle,
\* result["text"]: silence or a Malayalam word.
RT_heard == {<<32>>, <<32>> \o F_vedana}

\* real_time_local.py:51: what malayalam_to_english returns.
RT_translations == {EN_HELLO, EN_CHEST_PAIN}

\* real_time_local.py:32-33: continuous_translate enters its loop: no
\* temp.wav and no reply.mp3 yet, no playback thread started.
RT_start ==
    [pc |-> "listen", temp |-> FALSE, threads |-> <<>>,
     reply |-> [exists |-> FALSE, by |-> 0, text |-> EMPTY]]

\* real_time_local.py:37-41: a phrase is recorded and written to temp.wav.
RT_listen(r) == [r EXCEPT !.pc = "transcribe", !.temp = TRUE]

\* real_time_local.py:55: threading.Thread(target=self._speak, ...).start()
RT_start_thread(r, translation) ==
    [r EXCEPT !.threads = Append(@, [pc |-> "save", text |-> translation, played |-> 0])]

\* real_time_local.py:44-55: temp.wav is transcribed; a phrase that is not
\* empty is translated and a playback thread is started for it.  An exception
\* of the transcriber or of the translator is not caught by the loop.
RT_transcribe(r, heard, may_start) ==
    LET original == strip(heard)
    IN  {[r EXCEPT !.pc = "crashed"]}
        \cup (IF original = EMPTY THEN {[r EXCEPT !.pc = "remove_temp"]}
              ELSE IF ~may_start THEN {}
              ELSE {RT_start_thread([r EXCEPT !.pc = "remove_temp"], translation) :
                      translation \in RT_translations})

\* real_time_local.py:57: os.remove("temp.wav")
RT_remove_temp(r) == [r EXCEPT !.pc = "listen", !.temp = FALSE]

\* real_time_local.py:61-63: KeyboardInterrupt ends the loop; the threads
\* that were started go on.
RT_interrupt(r) == [r EXCEPT !.pc = "stopped"]

\* real_time_local.py:67-68: gTTS(...).save("reply.mp3") writes the speech
\* of thread t to the one file name all threads share, or raises (no
\* network) and the thread ends.
RT_speak_save(r, t) ==
    {[r EXCEPT !.threads[t].pc = "play",
               !.reply = [exists |-> TRUE, by |-> t, text |-> r.threads[t].text]],
     [r EXCEPT !.threads[t].pc = "died"]}

\* real_time_local.py:69: os.system("mpv reply.mp3 2>/dev/null") starts: mpv
\* opens whatever reply.mp3 is now; without the file it exits at once with
\* an error status that nobody looks at.
RT_speak_play(r, t) ==
    IF r.reply.exists
        THEN [r EXCEPT !.threads[t].pc = "playing", !.threads[t].played = r.reply.by]
    ELSE [r EXCEPT !.threads[t].pc = "remove"]

\* real_time_local.py:69: mpv has played the file to its end.
RT_speak_played(r, t) == [r EXCEPT !.threads[t].pc = "remove"]

\* real_time_local.py:70: os.remove("reply.mp3") raises FileNotFoundError
\* when another thread has removed the file; the exception ends the thread.
RT_speak_remove(r, t) ==
    IF r.reply.exists
        THEN [r EXCEPT !.threads[t].pc = "done",
                       !.reply = [exists |-> FALSE, by |-> 0, text |-> EMPTY]]
    ELSE [r EXCEPT !.threads[t].pc = "failed"]

----------------------------------------------------------------------------
(* The interactive loops. *)

\* brain.py:80, google_att.py:354: "exit"
L_exit ==
    <<101,120,105,116>>
\* brain.py:80: "quit"
L_quit ==
    <<113,117,105,116>>
\* an input line of two spaces: "  "
L_blank ==
    <<32,32>>
\* brain2.py:77: "Patient: "
brain2_H_PATIENT ==
    <<80,97,116,105,101,110,116,58,32>>
\* brain2.py:77: "\nAssistant: "
brain2_H_ASSISTANT ==
    <<10,65,115,115,105,115,116,97,110,116,58,32>>
\* brain2.py:77: "\n"
brain2_H_END ==
    <<10>>

\* A function of this repository called by a loop, in the log: its name, its
\* arguments and what it returned.
CallEv(fn, args, ret) == [op |-> fn, args |-> args, ret |-> ret]

\* What one iteration of a loop made of the session: the loop's local
\* variables after it, the calls it made, and whether an exception left the
\* loop (and so ended the program).
Step(s, l, crashed) == [session |-> s, log |-> l, raised |-> crashed]

\* `break`: the loop is left.
Break(s) == [s EXCEPT !.running = FALSE]

\* brain.py:76: the loop starts; brain.py keeps no history.
brain_session == [loop |-> "brain", running |-> TRUE]

\* brain.py:84-85: `if not user_input.strip(): continue`
brain_blank_line(user_input) == strip(user_input) = EMPTY

\* brain.py:76-93: one iteration of the loop on one input line.  The call of
\* query_post_discharge_guardian is not inside a try: when it raises, the
\* exception leaves the loop.
brain_main_step(s, user_input, exists) ==
    IF lower(user_input) \in {L_exit, L_quit} THEN {Step(Break(s), <<>>, FALSE)}
    ELSE IF brain_blank_line(user_input) THEN {Step(s, <<>>, FALSE)}
    ELSE {IF r.raised
              THEN Step(Break(s),
                        <<CallEv("query_post_discharge_guardian", <<user_input>>, RAISED)>>
                            \o r.log, TRUE)
          ELSE Step(s, <<CallEv("query_post_discharge_guardian", <<user_input>>, r.ret)>>
                           \o r.log, FALSE) :
          r \in brain_query_post_discharge_guardian(user_input, exists)}

\* brain2.py:68: chat_history = ""
brain2_session == [loop |-> "brain2", running |-> TRUE, chat_history |-> EMPTY]

\* brain2.py:77: chat_history += f"Patient: {user_input}\nAssistant: {response}\n"
brain2_chat_history(chat_history, user_input, response) ==
    chat_history \o brain2_H_PATIENT \o user_input \o brain2_H_ASSISTANT
        \o fstr(response) \o brain2_H_END

\* brain2.py:71-78: one iteration of the loop on one input line.  There is no
\* test for an empty line and no try around the call.
brain2_main_step(s, user_input, exists) ==
    IF lower(user_input) \in {L_exit, L_quit} THEN {Step(Break(s), <<>>, FALSE)}
    ELSE {IF r.raised
              THEN Step(Break(s),
                        <<CallEv("query_post_discharge_guardian",
                                 <<user_input, s.chat_history>>, RAISED)>> \o r.log, TRUE)
          ELSE Step([s EXCEPT !.chat_history =
                                  brain2_chat_history(s.chat_history, user_input, r.ret)],
                    <<CallEv("query_post_discharge_guardian",
                             <<user_input, s.chat_history>>, r.ret)>> \o r.log, FALSE) :
          r \in brain2_query_post_discharge_guardian(user_input, s.chat_history, exists)}

\* google_TT.py:334, unified_communication_bot.py:255: "/exit"
CMD_exit ==
    <<47,101,120,105,116>>
\* google_TT.py:338, unified_communication_bot.py:268: "/context "
CMD_context ==
    <<47,99,111,110,116,101,120,116,32>>
\* google_TT.py:347: "/english"
CMD_english ==
    <<47,101,110,103,108,105,115,104>>
\* google_TT.py:352: "/malayalam"
CMD_malayalam ==
    <<47,109,97,108,97,121,97,108,97,109>>
\* google_TT.py:357, unified_communication_bot.py:277: "/save"
CMD_save ==
    <<47,115,97,118,101>>
\* google_TT.py:368: "/history"
CMD_history ==
    <<47,104,105,115,116,111,114,121>>
\* unified_communication_bot.py:259: "/mode "
CMD_mode ==
    <<47,109,111,100,101,32>>
\* unified_communication_bot.py:283: "audio:"
CMD_audio ==
    <<97,117,100,105,111,58>>
\* google_TT.py:340: "medical"
W_medical ==
    <<109,101,100,105,99,97,108>>
\* google_TT.py:340: "general"
W_general ==
    <<103,101,110,101,114,97,108>>
\* google_TT.py:340: "technical"
W_technical ==
    <<116,101,99,104,110,105,99,97,108>>
\* unified_communication_bot.py:261: "text"
W_text ==
    <<116,101,120,116>>
\* unified_communication_bot.py:261: "audio"
W_audio ==
    <<97,117,100,105,111>>
\* unified_communication_bot.py:261: "both"
W_both ==
    <<98,111,116,104>>
\* google_TT.py:360: "conversations/session_1.json"
SESSION_FILE ==
    <<99,111,110,118,101,114,115,97,116,105,111,110,115,47,115,101,115,115,105,111,110,95,49,46,
      106,115,111,110>>
\* a line typed at the prompt: "/context medical"
LINE_context_medical ==
    <<47,99,111,110,116,101,120,116,32,109,101,100,105,99,97,108>>
\* a line typed at the prompt: " /Context  Technical extra "
LINE_Context_Technical ==
    <<32,47,67,111,110,116,101,120,116,32,32,84,101,99,104,110,105,99,97,108,32,101,120,116,114,
      97,32>>
\* a line typed at the prompt: "/context bogus"
LINE_context_bogus ==
    <<47,99,111,110,116,101,120,116,32,98,111,103,117,115>>
\* a line typed at the prompt: "/mode audio"
LINE_mode_audio ==
    <<47,109,111,100,101,32,97,117,100,105,111>>
\* a line typed at the prompt: "/MODE Both"
LINE_Mode_Both ==
    <<47,77,79,68,69,32,66,111,116,104>>
\* a line typed at the prompt: "/mode loud"
LINE_mode_loud ==
    <<47,109,111,100,101,32,108,111,117,100>>
\* a line typed at the prompt: "/Save"
LINE_Save ==
    <<47,83,97,118,101>>
\* a line typed at the prompt: "audio: audio_input/q.mp3"
LINE_audio_file ==
    <<97,117,100,105,111,58,32,97,117,100,105,111,95,105,110,112,117,116,47,113,46,109,112,51>>

\* input() raised EOFError: standard input is closed.
EOF == <<-5>>

\* Ctrl+C while the loop waits in input(): KeyboardInterrupt.
INTERRUPT == <<-6>>

\* str.startswith
StartsWith(s, prefix) ==
    Len(s) >= Len(prefix) /\ SubSeq(s, 1, Len(prefix)) = prefix

\* The first word of s and what follows it, s starting with no white space.
RECURSIVE FirstWord(_)
FirstWord(s) ==
    IF s = <<>> \/ IsSpace(s[1]) THEN <<>> ELSE <<s[1]>> \o FirstWord(Tail(s))

\* str.split(): the words of s, separated by runs of white space.
RECURSIVE split(_)
split(s) ==
    LET t == lstrip(s)
    IN  IF t = <<>> THEN <<>>
        ELSE LET w == FirstWord(t)
             IN  <<w>> \o split(SubSeq(t, Len(w) + 1, Len(t)))

\* The context tag a word names.
ContextTag(word) ==
    IF word = W_medical THEN "medical"
    ELSE IF word = W_technical THEN "technical"
    ELSE "general"

\* The output mode a word names.
ModeTag(word) ==
    IF word = W_audio THEN "audio"
    ELSE IF word = W_both THEN "both"
    ELSE "text"

\* A function of this repository that returns a dict raised instead.
CallRaised == [raised |-> TRUE]

\* A file written by a loop, in the log: its name, what was written and the
\* name again (RAISED when open() or the write raised).
WriteEv(filename, content, out) ==
    [op |-> "open.write", filename |-> filename, content |-> content, out |-> out]

\* The handler as it would be if it let the exception end the loop.
OnException_Ends(s, l) == Step(Break(s), l, TRUE)

\* google_TT.py:397-398, unified_communication_bot.py:323-324,
\* google_att.py:394-397: `except Exception` prints the error; the loop goes
\* on with the session as the statement that raised left it.
OnException(s, l) == Step(s, l, FALSE)

\* google_TT.py:323-324: the locals of interactive_mode when the loop starts.
TT_session(context) ==
    [loop |-> "TT", running |-> TRUE, context |-> context,
     respond_in_malayalam |-> TRUE, conversation_history |-> <<>>]

\* google_TT.py:330-331 as it would be without the test for an empty line.
TT_blank_line_Missing(user_input) == FALSE

\* google_TT.py:330-331: `if not user_input: continue`
TT_blank_line(user_input) == user_input = EMPTY

\* /context as it would be if switching the context started a new history.
TT_command_context_ResetsHistory(s, user_input) ==
    [s EXCEPT !.context = ContextTag(lower(split(user_input)[2])),
              !.conversation_history = <<>>]

\* google_TT.py:338-345: /context <tag>
TT_command_context(s, user_input) ==
    LET new_context == lower(split(user_input)[2])
    IN  IF new_context \in {W_medical, W_general, W_technical}
            THEN [s EXCEPT !.context = ContextTag(new_context)]
        ELSE s

\* google_TT.py:357-366: /save writes the history of the session to a file
\* when there is one; open() may raise.
TT_command_save(s) ==
    IF s.conversation_history # <<>>
        THEN {Step(s, <<WriteEv(SESSION_FILE, s.conversation_history, SESSION_FILE)>>, FALSE),
              OnException(s, <<WriteEv(SESSION_FILE, s.conversation_history, RAISED)>>)}
    ELSE {Step(s, <<>>, FALSE)}

\* google_TT.py:368-379: /history prints the turns of the session.
TT_command_history(s) == {Step(s, <<>>, FALSE)}

\* The message handler as it would be if the newest record came first.
TT_message_NewestFirst(s, user_input, enabled) ==
    {IF r.raised
         THEN OnException(s, <<CallEv("process_text",
                                      <<user_input, s.context, s.respond_in_malayalam>>,
                                      CallRaised)>> \o r.log)
     ELSE Step([s EXCEPT !.conversation_history = <<r.ret>> \o @],
               <<CallEv("process_text", <<user_input, s.context, s.respond_in_malayalam>>,
                        r.ret)>> \o r.log,
               FALSE) :
     r \in TT_process_text(user_input, s.context, s.respond_in_malayalam, enabled)}

\* google_TT.py:381-392: the line is a message.
TT_message(s, user_input, enabled) ==
    {IF r.raised
         THEN OnException(s, <<CallEv("process_text",
                                      <<user_input, s.context, s.respond_in_malayalam>>,
                                      CallRaised)>> \o r.log)
     ELSE Step(IF r.ret.success
                   THEN [s EXCEPT !.conversation_history = Append(@, r.ret)]
               ELSE s,
               <<CallEv("process_text", <<user_input, s.context, s.respond_in_malayalam>>,
                        r.ret)>> \o r.log,
               FALSE) :
     r \in TT_process_text(user_input, s.context, s.respond_in_malayalam, enabled)}

\* google_TT.py:326-398: one iteration of the loop of interactive_mode; line
\* is what input() gave.
TT_interactive_step(s, line, enabled) ==
    IF line = INTERRUPT THEN {Step(Break(s), <<>>, FALSE)}
    ELSE IF line = EOF THEN {OnException(s, <<>>)}
    ELSE LET user_input == strip(line)
         IN  IF TT_blank_line(user_input) THEN {Step(s, <<>>, FALSE)}
             ELSE IF lower(user_input) = CMD_exit THEN {Step(Break(s), <<>>, FALSE)}
             ELSE IF StartsWith(lower(user_input), CMD_context)
                 THEN {Step(TT_command_context(s, user_input), <<>>, FALSE)}
             ELSE IF lower(user_input) = CMD_english
                 THEN {Step([s EXCEPT !.respond_in_malayalam = FALSE], <<>>, FALSE)}
             ELSE IF lower(user_input) = CMD_malayalam
                 THEN {Step([s EXCEPT !.respond_in_malayalam = TRUE], <<>>, FALSE)}
             ELSE IF lower(user_input) = CMD_save THEN TT_command_save(s)
             ELSE IF lower(user_input) = CMD_history THEN TT_command_history(s)
             ELSE TT_message(s, user_input, enabled)

\* unified_communication_bot.py:240-243: the locals of interactive_chat when
\* the loop starts.
UNI_session ==
    [loop |-> "UNI", running |-> TRUE, output_mode |-> "text", context |-> "general",
     auto_save |-> FALSE, conversation_count |-> 0]

\* unified_communication_bot.py:251-252: `if not user_input: continue`
UNI_blank_line(user_input) == user_input = EMPTY

\* /mode as it would be if the tag were compared as typed.
UNI_command_mode_AsTyped(s, user_input) ==
    LET new_mode == split(user_input)[2]
    IN  IF new_mode \in {W_text, W_audio, W_both}
            THEN [s EXCEPT !.output_mode = ModeTag(new_mode)]
        ELSE s

\* unified_communication_bot.py:259-266: /mode <tag>
UNI_command_mode(s, user_input) ==
    LET new_mode == lower(split(user_input)[2])
    IN  IF new_mode \in {W_text, W_audio, W_both}
            THEN [s EXCEPT !.output_mode = ModeTag(new_mode)]
        ELSE s

\* unified_communication_bot.py:268-275: /context <tag>
UNI_command_context(s, user_input) ==
    LET new_context == lower(split(user_input)[2])
    IN  IF new_context \in {W_medical, W_general, W_technical}
            THEN [s EXCEPT !.context = ContextTag(new_context)]
        ELSE s

\* unified_communication_bot.py:277-280: /save toggles auto-save.
UNI_command_save(s) == [s EXCEPT !.auto_save = ~s.auto_save]

\* unified_communication_bot.py:294-318: communicate is called and a success
\* is counted.
UNI_message(s, input_data, input_type, text_available, audio_available, enabled) ==
    {IF r.raised
         THEN OnException(s, <<CallEv("communicate",
                                      <<input_data, input_type, s.output_mode, s.context,
                                        s.auto_save>>, CallRaised)>> \o r.log)
     ELSE Step(IF r.ret.success
                   THEN [s EXCEPT !.conversation_count = @ + 1]
               ELSE s,
               <<CallEv("communicate",
                        <<input_data, input_type, s.output_mode, s.context, s.auto_save>>,
                        r.ret)>> \o r.log,
               FALSE) :
     r \in UNI_communicate(input_data, input_type, s.output_mode, s.context, s.auto_save,
                           text_available, audio_available, enabled)}

\* unified_communication_bot.py:245-324: one iteration of the loop of
\* interactive_chat; line is what input() gave, file_exists what
\* os.path.exists says of the audio file the line names.
UNI_interactive_step(s, line, file_exists, text_available, audio_available, enabled) ==
    IF line = INTERRUPT THEN {Step(Break(s), <<>>, FALSE)}
    ELSE IF line = EOF THEN {OnException(s, <<>>)}
    ELSE LET user_input == strip(line)
         IN  IF UNI_blank_line(user_input) THEN {Step(s, <<>>, FALSE)}
             ELSE IF lower(user_input) = CMD_exit THEN {Step(Break(s), <<>>, FALSE)}
             ELSE IF StartsWith(lower(user_input), CMD_mode)
                 THEN {Step(UNI_command_mode(s, user_input), <<>>, FALSE)}
             ELSE IF StartsWith(lower(user_input), CMD_context)
                 THEN {Step(UNI_command_context(s, user_input), <<>>, FALSE)}
             ELSE IF lower(user_input) = CMD_save
                 THEN {Step(UNI_command_save(s), <<>>, FALSE)}
             ELSE IF StartsWith(lower(user_input), CMD_audio)
                 THEN LET input_data == strip(SubSeq(user_input, 7, Len(user_input)))
                      IN  IF ~file_exists THEN {Step(s, <<>>, FALSE)}
                          ELSE UNI_message(s, input_data, "audio", text_available,
                                           audio_available, enabled)
             ELSE UNI_message(s, user_input, "text", text_available, audio_available,
                              enabled)

\* google_att.py:358: "test"
L_test ==
    <<116,101,115,116>>
\* google_att.py:362: "batch"
L_batch ==
    <<98,97,116,99,104>>
\* google_att.py:409: "\u0d0e\u0d28\u0d3f\u0d15\u0d4d\u0d15\u0d4d \u0d2a\u0d28\u0d3f\u0d2f\u0d41\u0d23\u0d4d\u0d1f\u0d4d, \u0d24\u0d32\u0d35\u0d47\u0d26\u0d28\u0d2f\u0d41\u0d23\u0d4d\u0d1f\u0d4d"
ATT_TEST_TEXT ==
    <<3342,3368,3391,3349,3405,3349,3405,32,3370,3368,3391,3375,3393,3363,3405,3359,3405,44,32,
      3364,3378,3381,3399,3366,3368,3375,3393,3363,3405,3359,3405>>
\* google_att.py:410: "audio_input/test_input.mp3"
ATT_TEST_AUDIO ==
    <<97,117,100,105,111,95,105,110,112,117,116,47,116,101,115,116,95,105,110,112,117,116,46,
      109,112,51>>
\* a line typed at the prompt: " Exit"
LINE_Exit ==
    <<32,69,120,105,116>>
\* a line typed at the prompt of batch: "audio_input/q.mp3 ,"
LINE_files ==
    <<97,117,100,105,111,95,105,110,112,117,116,47,113,46,109,112,51,32,44>>

\* str.split(c): the pieces of s between the occurrences of the character c.
RECURSIVE split_on(_, _)
split_on(s, c) ==
    IF \A i \in 1..Len(s) : s[i] # c THEN <<s>>
    ELSE LET i == CHOOSE j \in 1..Len(s) : s[j] = c /\ \A k \in 1..(j - 1) : s[k] # c
         IN  <<SubSeq(s, 1, i - 1)>> \o split_on(SubSeq(s, i + 1, Len(s)), c)

\* google_att.py:145-178, batch_transcribe(audio_files): every file is
\* transcribed, every transcription is saved.
RECURSIVE ATT_batch_transcribe(_)
ATT_batch_transcribe(audio_files) ==
    IF audio_files = <<>> THEN {<<>>}
    ELSE UNION {{t.log \o sv \o rest :
                    sv \in (IF t.ret = Nothing THEN {<<>>}
                            ELSE {w.log : w \in ATT_save_transcript(t.ret)}),
                    rest \in ATT_batch_transcribe(Tail(audio_files))} :
                t \in ATT_transcribe_audio(Head(audio_files))}

\* google_att.py:399-446, run_test(): a test recording is synthesized and
\* sent through process_audio_input; a failure to synthesize ends the test.
ATT_run_test(enabled) ==
    {<<Ev("gTTS.save", ATT_TEST_TEXT, RAISED)>>}
    \cup {<<Ev("gTTS.save", ATT_TEST_TEXT, ATT_TEST_AUDIO),
            CallEv("process_audio_input", <<ATT_TEST_AUDIO>>, r.ret)>> \o r.log :
            r \in ATT_process_audio_input(ATT_TEST_AUDIO, TRUE, enabled)}

\* google_att.py:350: the loop of interactive_audio_mode has no locals.
ATT_session == [loop |-> "ATT", running |-> TRUE]

\* google_att.py:362-367: the files of a batch are read from a second line.
ATT_command_batch(s, files_line) ==
    IF files_line = INTERRUPT THEN {Step(Break(s), <<>>, FALSE)}
    ELSE IF files_line = EOF THEN {OnException(s, <<>>)}
    ELSE LET pieces == split_on(strip(files_line), 44)
             files  == [i \in 1..Len(pieces) |-> strip(pieces[i])]
         IN  {Step(s, <<CallEv("batch_transcribe", files, None)>> \o l, FALSE) :
                l \in ATT_batch_transcribe(files)}

\* google_att.py:350-397: one iteration of the loop of
\* interactive_audio_mode; line is what input() gave, files_line what the
\* second input() of 'batch' gave, file_exists what os.path.exists says.
ATT_interactive_step(s, line, files_line, file_exists, enabled) ==
    IF line = INTERRUPT THEN {Step(Break(s), <<>>, FALSE)}
    ELSE IF line = EOF THEN {OnException(s, <<>>)}
    ELSE LET user_input == strip(line)
         IN  IF lower(user_input) = L_exit THEN {Step(Break(s), <<>>, FALSE)}
             ELSE IF lower(user_input) = L_test
                 THEN {Step(s, l, FALSE) : l \in ATT_run_test(enabled)}
             ELSE IF lower(user_input) = L_batch THEN ATT_command_batch(s, files_line)
             ELSE IF user_input = EMPTY THEN {Step(s, <<>>, FALSE)}
             ELSE IF ~file_exists THEN {Step(s, <<>>, FALSE)}
             ELSE {IF r.raised
                       THEN OnException(s, <<CallEv("process_audio_input", <<user_input>>,
                                                    CallRaised)>> \o r.log)
                   ELSE Step(s, <<CallEv("process_audio_input", <<user_input>>, r.ret)>>
                                    \o r.log, FALSE) :
                   r \in ATT_process_audio_input(user_input, TRUE, enabled)}

----------------------------------------------------------------------------
(* State machine. *)

NoCall == [fn |-> "none"]

\* No interactive loop is running.
NoSession == [loop |-> "none"]

\* real_time_local is not running.
NoThreads == [pc |-> "none"]

Init ==
    /\ use_ollama \in BOOLEAN
    /\ TEXT_BOT_AVAILABLE \in BOOLEAN
    /\ AUDIO_BOT_AVAILABLE \in BOOLEAN
    /\ kb_exists \in BOOLEAN
    /\ call = NoCall
    /\ result = None
    /\ raised = FALSE
    /\ log = <<>>
    /\ session = NoSession
    /\ rt = NoThreads

\* The caller is idle: no call is in progress.
Idle == call = NoCall

\* The caller receives r from the call c.
Returns(c, r) ==
    /\ call' = c
    /\ result' = r.ret
    /\ raised' = r.raised
    /\ log' = r.log
    /\ UNCHANGED env

\* One patient query answered by brain.py (brain.py:90).
BrainQuery ==
    /\ Idle
    /\ \E q \in Texts :
        \E r \in brain_query_post_discharge_guardian(q, kb_exists) :
            Returns([fn |-> "brain.query_post_discharge_guardian", user_query |-> q], r)

\* The conversation histories a brain2 turn may be called with.
Histories == {EMPTY, F_hi}

\* One patient query answered by brain2.py (brain2.py:76).
Brain2Query ==
    /\ Idle
    /\ \E q \in Texts, h \in Histories :
        \E r \in brain2_query_post_discharge_guardian(q, h, kb_exists) :
            Returns([fn |-> "brain2.query_post_discharge_guardian", user_query |-> q,
                     history |-> h], r)

\* The caller has consumed the result and is ready for the next call.
Consume ==
    /\ ~Idle
    /\ call' = NoCall
    /\ result' = None
    /\ raised' = FALSE
    /\ log' = <<>>
    /\ UNCHANGED env

\* The brain scripts are programs of their own: the bots' settings play no part.
InitBrain ==
    /\ Init
    /\ ~use_ollama
    /\ TEXT_BOT_AVAILABLE
    /\ AUDIO_BOT_AVAILABLE

NextBrain == BrainQuery \/ Brain2Query \/ Consume

\* The brain scripts.
SpecBrain == InitBrain /\ [][NextBrain]_vars

\* The medical_docs folder of the model holds at most MaxFiles files.
MaxFiles == 3

\* What os.listdir may give: the files of the folder, each once, in any order.
Listings ==
    {l \in SeqsUpTo({FILE_guide, FILE_portfolio, FILE_readme}, MaxFiles) :
        \A i, j \in 1..Len(l) : l[i] = l[j] => i = j}

\* The call wrote the knowledge-base directory.
Persisted(l) == \E i \in Calls(l, "Chroma.from_documents") : l[i].persisted

\* build_medical_database() is run (brain.py:68); the knowledge-base
\* directory exists afterwards if it did before or the call wrote it.
BuildMedicalDatabase ==
    /\ Idle
    /\ \E folder_exists \in BOOLEAN :
        \E listing \in (IF folder_exists THEN Listings ELSE {<<>>}) :
            \E r \in build_medical_database(folder_exists, listing) :
                /\ call' = [fn |-> "brain.build_medical_database",
                            folder_exists |-> folder_exists, listing |-> listing,
                            kb_before |-> kb_exists]
                /\ result' = r.ret
                /\ raised' = r.raised
                /\ log' = r.log
                /\ kb_exists' = (kb_exists \/ Persisted(r.log))
                /\ UNCHANGED <<use_ollama, TEXT_BOT_AVAILABLE, AUDIO_BOT_AVAILABLE, session, rt>>

NextBuild == BuildMedicalDatabase \/ Consume

\* The database build of brain.py.
SpecBuild == InitBrain /\ [][NextBuild]_vars

----------------------------------------------------------------------------
(* The bots' operations. *)

Contexts == {"general", "medical", "technical"}

\* A text is checked for its language by the text bot.
TTDetectLanguage ==
    /\ Idle
    /\ \E text \in Texts :
        \E r \in TT_detect_language(text) :
            Returns([fn |-> "TT.detect_language", text |-> text], r)

\* A text is checked for its language by the audio bot.
ATTDetectLanguage ==
    /\ Idle
    /\ \E text \in Texts :
        Returns([fn |-> "ATT.detect_language", text |-> text],
                Ret(ATT_detect_language(text), <<>>))

\* One of the text bot's three translation functions is called.
TTTranslate ==
    /\ Idle
    /\ \E text \in Texts :
        \/ \E r \in TT_translate_to_malayalam(text) :
            Returns([fn |-> "TT.translate_to_malayalam", text |-> text], r)
        \/ \E r \in TT_translate_to_english(text) :
            Returns([fn |-> "TT.translate_to_english", text |-> text], r)
        \/ \E r \in TT_auto_translate_to_english(text) :
            Returns([fn |-> "TT.auto_translate_to_english", text |-> text], r)

\* One of the audio bot's two translation functions is called.
ATTTranslate ==
    /\ Idle
    /\ \E text \in Texts :
        \/ \E r \in ATT_translate_to_malayalam(text) :
            Returns([fn |-> "ATT.translate_to_malayalam", text |-> text], r)
        \/ \E r \in ATT_translate_to_english(text) :
            Returns([fn |-> "ATT.translate_to_english", text |-> text], r)

NextLang == TTDetectLanguage \/ ATTDetectLanguage \/ TTTranslate \/ ATTTranslate \/ Consume

\* Detection and translation read none of the settings.
InitLang ==
    /\ InitBrain
    /\ kb_exists

\* Language detection and translation, on every text of the input space.
SpecLang == InitLang /\ [][NextLang]_vars

\* What a user says to a bot in one turn.
Utterances == {F_hi, F_ChestPain, F_fever, F_medicine, F_vedana, F_chillu, EMPTY}

\* TextToTextBot.process_text is called.
ProcessText ==
    /\ Idle
    /\ \E user_input \in Utterances, context \in Contexts,
          respond_in_malayalam \in BOOLEAN :
        \E r \in TT_process_text(user_input, context, respond_in_malayalam, use_ollama) :
            Returns([fn |-> "TT.process_text", user_input |-> user_input,
                     context |-> context,
                     respond_in_malayalam |-> respond_in_malayalam], r)

\* BidirectionalMalayalamBot.process_audio_input is called.
ProcessAudioInput ==
    /\ Idle
    /\ \E save_transcript_file \in BOOLEAN :
        \E r \in ATT_process_audio_input(AUDIO_PATH, save_transcript_file, use_ollama) :
            Returns([fn |-> "ATT.process_audio_input", audio_file_path |-> AUDIO_PATH,
                     save_transcript_file |-> save_transcript_file], r)

\* UnifiedCommunicationBot.communicate is called: with a text, with an audio
\* file, or (by a caller's slip) with None.
Communicate ==
    /\ Idle
    /\ \E input_type \in {"text", "audio"}, output_type \in {"text", "audio", "both"},
          context \in Contexts, save_conversation \in BOOLEAN :
        \E input_data \in (IF input_type = "audio" THEN {AUDIO_PATH}
                           ELSE Utterances \cup {None}) :
            \E r \in UNI_communicate(input_data, input_type, output_type, context,
                                     save_conversation, TEXT_BOT_AVAILABLE,
                                     AUDIO_BOT_AVAILABLE, use_ollama) :
                Returns([fn |-> "UNI.communicate", input_data |-> input_data,
                         input_type |-> input_type, output_type |-> output_type,
                         context |-> context,
                         save_conversation |-> save_conversation], r)

NextBot == ProcessText \/ ProcessAudioInput \/ Communicate \/ Consume

\* The bots do not use the knowledge base of the brain scripts.
InitBot ==
    /\ Init
    /\ kb_exists

\* The bots' pipelines.
SpecBot == InitBot /\ [][NextBot]_vars

\* The texts on which two calls are compared.
PairInputs == {F_hi, F_fever, F_vedana}

\* The external world answers the same request in the same way: a call made
\* in both runs with the same argument has the same outcome in both.
SameWorld(l1, l2) ==
    \A i \in 1..Len(l1), j \in 1..Len(l2) :
        (l1[i].op = l2[j].op /\ l1[i].op # "requests.post" /\ l1[i].arg = l2[j].arg)
            => l1[i].out = l2[j].out

\* The backend fails or answers alike in both runs.
SameBackend(l1, l2) ==
    \A i \in Calls(l1, "requests.post"), j \in Calls(l2, "requests.post") :
        l1[i].out = l2[j].out

\* process_text is called twice on the same input by the same bot in the
\* same world; the two calls differ in the context tag only.
ProcessTextPair ==
    /\ Idle
    /\ \E user_input \in PairInputs, respond_in_malayalam \in BOOLEAN,
          context1 \in Contexts, context2 \in Contexts :
        /\ context1 # context2
        /\ \E r1 \in TT_process_text(user_input, context1, respond_in_malayalam, use_ollama),
              r2 \in TT_process_text(user_input, context2, respond_in_malayalam, use_ollama) :
            /\ SameWorld(r1.log, r2.log)
            /\ SameBackend(r1.log, r2.log)
            /\ call' = [fn |-> "TT.process_text twice", user_input |-> user_input,
                        respond_in_malayalam |-> respond_in_malayalam,
                        context1 |-> context1, context2 |-> context2]
            /\ result' = [first |-> r1.ret, second |-> r2.ret]
            /\ raised' = FALSE
            /\ log' = [first |-> r1.log, second |-> r2.log]
            /\ UNCHANGED env

NextContext == ProcessTextPair \/ Consume

\* Two calls of process_text that differ in the context tag only.
SpecContext == InitBot /\ [][NextContext]_vars

\* The context tags get_fallback_response may be given: the three tags and
\* one it does not know.
FallbackContexts == Contexts \cup {"billing"}

\* get_fallback_response is called on a query.
TTFallback ==
    /\ Idle
    /\ \E english_query \in Texts, context \in FallbackContexts :
        Returns([fn |-> "TT.get_fallback_response", english_query |-> english_query,
                 context |-> context],
                Ret(TT_get_fallback_response(english_query, context), <<>>))

NextFallback == TTFallback \/ Consume

\* The fallback responder, on every text of the input space.
SpecFallback == InitLang /\ [][NextFallback]_vars

\* Every function that handles one turn, of the bots and of the brain scripts.
NextTurn ==
    \/ BrainQuery
    \/ Brain2Query
    \/ ProcessText
    \/ ProcessAudioInput
    \/ Communicate
    \/ Consume

\* A bot, or a brain script with or without its knowledge base.
InitTurn == InitBot \/ InitBrain

\* One turn of any of the programs.
SpecTurn == InitTurn /\ [][NextTurn]_vars

----------------------------------------------------------------------------
(* The loops of the brain scripts. *)

\* A session of the model has at most MaxTurns answered turns.
MaxTurns == 2

\* The lines a patient types at the prompt of a brain script.
BrainLines == {EMPTY, L_blank, L_exit, F_hi, F_ChestPain}

\* One iteration of a loop has run: c says which loop read which line in
\* which session, st is what the iteration made of it.
LoopStep(c, st) ==
    /\ call' = c
    /\ result' = None
    /\ raised' = st.raised
    /\ log' = st.log
    /\ session' = st.session
    /\ UNCHANGED <<settings, rt>>

\* The number of turns recorded in chat_history.
TurnsIn(chat_history) ==
    Cardinality({i \in 1..Len(chat_history) :
                    /\ i + Len(brain2_H_PATIENT) - 1 <= Len(chat_history)
                    /\ SubSeq(chat_history, i, i + Len(brain2_H_PATIENT) - 1)
                           = brain2_H_PATIENT})

\* brain.py:76-93: the loop reads a line and handles it.
BrainLoopTurn ==
    /\ session.loop = "brain"
    /\ session.running
    /\ \E user_input \in BrainLines :
        \E st \in brain_main_step(session, user_input, kb_exists) :
            LoopStep([fn |-> "brain.__main__", line |-> user_input, before |-> session], st)

\* brain2.py:71-78: the loop reads a line and handles it.
Brain2LoopTurn ==
    /\ session.loop = "brain2"
    /\ session.running
    /\ TurnsIn(session.chat_history) < MaxTurns
    /\ \E user_input \in BrainLines :
        \E st \in brain2_main_step(session, user_input, kb_exists) :
            LoopStep([fn |-> "brain2.__main__", line |-> user_input, before |-> session], st)

\* One of the two brain scripts is started, with or without a knowledge base.
InitBrainLoop ==
    /\ use_ollama = FALSE
    /\ TEXT_BOT_AVAILABLE = TRUE
    /\ AUDIO_BOT_AVAILABLE = TRUE
    /\ kb_exists \in BOOLEAN
    /\ call = NoCall
    /\ result = None
    /\ raised = FALSE
    /\ log = <<>>
    /\ session \in {brain_session, brain2_session}
    /\ rt = NoThreads

NextBrainLoop == BrainLoopTurn \/ Brain2LoopTurn

\* The interactive loops of the brain scripts.
SpecBrainLoop == InitBrainLoop /\ [][NextBrainLoop]_vars

----------------------------------------------------------------------------
(* The interactive loops of the bots. *)

\* What input() gives to every loop: an empty line, a line of spaces, the end
\* of input, Ctrl+C, and commands in several spellings.
CommonLines ==
    {EMPTY, L_blank, EOF, INTERRUPT, CMD_exit, LINE_context_medical,
     LINE_Context_Technical, LINE_context_bogus, LINE_Save, F_hi}

\* The lines typed in interactive_mode: /mode is no command of this loop.
TTLines == CommonLines \cup {CMD_english, CMD_malayalam, CMD_history, LINE_mode_audio}

\* The lines typed in interactive_chat: /history and /english are no
\* commands of this loop.
UNILines ==
    CommonLines \cup {LINE_mode_audio, LINE_Mode_Both, LINE_mode_loud, LINE_audio_file,
                      CMD_history, CMD_english}

\* google_TT.py:326-398: interactive_mode reads a line and handles it.
TTInteractiveTurn ==
    /\ session.loop = "TT"
    /\ session.running
    /\ \E line \in TTLines :
        \E st \in TT_interactive_step(session, line, use_ollama) :
            /\ Len(st.session.conversation_history) <= MaxTurns
            /\ LoopStep([fn |-> "TT.interactive_mode", line |-> line, before |-> session],
                        st)

\* unified_communication_bot.py:245-324: interactive_chat reads a line and
\* handles it.
UNIInteractiveTurn ==
    /\ session.loop = "UNI"
    /\ session.running
    /\ \E line \in UNILines :
        \E file_exists \in (IF line = LINE_audio_file THEN BOOLEAN ELSE {TRUE}) :
            \E st \in UNI_interactive_step(session, line, file_exists, TEXT_BOT_AVAILABLE,
                                           AUDIO_BOT_AVAILABLE, use_ollama) :
                /\ st.session.conversation_count <= MaxTurns
                /\ LoopStep([fn |-> "UNI.interactive_chat", line |-> line,
                             before |-> session], st)

\* The lines typed in interactive_audio_mode.
ATTLines == {EMPTY, L_blank, EOF, INTERRUPT, LINE_Exit, L_test, L_batch, AUDIO_PATH}

\* google_att.py:350-397: interactive_audio_mode reads a line and handles it.
ATTInteractiveTurn ==
    /\ session.loop = "ATT"
    /\ session.running
    /\ \E line \in ATTLines :
        \E file_exists \in (IF line = AUDIO_PATH THEN BOOLEAN ELSE {TRUE}),
           files_line \in (IF line = L_batch THEN {LINE_files, EOF, INTERRUPT} ELSE {EMPTY}) :
            \E st \in ATT_interactive_step(session, line, files_line, file_exists,
                                           use_ollama) :
                LoopStep([fn |-> "ATT.interactive_audio_mode", line |-> line,
                          files_line |-> files_line, before |-> session], st)

\* One of the bots' loops is started.  interactive_mode and
\* interactive_audio_mode belong to a bot that was imported; only
\* interactive_chat runs with a subsystem missing.
InitChat ==
    /\ use_ollama = FALSE
    /\ TEXT_BOT_AVAILABLE \in BOOLEAN
    /\ AUDIO_BOT_AVAILABLE \in BOOLEAN
    /\ kb_exists = TRUE
    /\ call = NoCall
    /\ result = None
    /\ raised = FALSE
    /\ log = <<>>
    /\ session \in {TT_session(context) : context \in Contexts}
                    \cup {UNI_session, ATT_session}
    /\ (session.loop # "UNI") => (TEXT_BOT_AVAILABLE /\ AUDIO_BOT_AVAILABLE)
    /\ rt = NoThreads

NextChat == TTInteractiveTurn \/ UNIInteractiveTurn \/ ATTInteractiveTurn

\* The interactive loops of the bots.
SpecChat == InitChat /\ [][NextChat]_vars

----------------------------------------------------------------------------
(* real_time_local: the listen loop and its playback threads. *)

\* The main thread is in its loop.
RTMainAt(pc) == rt.pc = pc

\* A step of real_time_local: only rt changes.
RTStep(r) ==
    /\ rt' = r
    /\ UNCHANGED <<settings, call, result, raised, log, session>>

\* real_time_local.py:37-41
RTListen ==
    /\ RTMainAt("listen")
    /\ RTStep(RT_listen(rt))

\* real_time_local.py:44-55
RTTranscribe ==
    /\ RTMainAt("transcribe")
    /\ \E heard \in RT_heard :
        \E r \in RT_transcribe(rt, heard, Len(rt.threads) < MaxThreads) : RTStep(r)

\* real_time_local.py:57
RTRemoveTemp ==
    /\ RTMainAt("remove_temp")
    /\ RTStep(RT_remove_temp(rt))

\* real_time_local.py:61-63: Ctrl+C while the loop listens.
RTInterrupt ==
    /\ RTMainAt("listen")
    /\ RTStep(RT_interrupt(rt))

\* The playback threads that are at `pc`.
RTThreadsAt(pc) == {t \in 1..Len(rt.threads) : rt.threads[t].pc = pc}

\* real_time_local.py:67-68, in any playback thread.
RTSpeakSave ==
    /\ rt.pc # "none"
    /\ \E t \in RTThreadsAt("save") : \E r \in RT_speak_save(rt, t) : RTStep(r)

\* real_time_local.py:69, mpv starts.
RTSpeakPlay ==
    /\ rt.pc # "none"
    /\ \E t \in RTThreadsAt("play") : RTStep(RT_speak_play(rt, t))

\* real_time_local.py:69, mpv ends.
RTSpeakPlayed ==
    /\ rt.pc # "none"
    /\ \E t \in RTThreadsAt("playing") : RTStep(RT_speak_played(rt, t))

\* real_time_local.py:70
RTSpeakRemove ==
    /\ rt.pc # "none"
    /\ \E t \in RTThreadsAt("remove") : RTStep(RT_speak_remove(rt, t))

\* real_time_local.py:73-75: the translator is started.
InitRealTime ==
    /\ use_ollama = FALSE
    /\ TEXT_BOT_AVAILABLE = TRUE
    /\ AUDIO_BOT_AVAILABLE = TRUE
    /\ kb_exists = TRUE
    /\ call = NoCall
    /\ result = None
    /\ raised = FALSE
    /\ log = <<>>
    /\ session = NoSession
    /\ rt = RT_start

NextRealTime ==
    \/ RTListen
    \/ RTTranscribe
    \/ RTRemoveTemp
    \/ RTInterrupt
    \/ RTSpeakSave
    \/ RTSpeakPlay
    \/ RTSpeakPlayed
    \/ RTSpeakRemove

\* The listen loop and the playback threads, in every interleaving.
SpecRealTime == InitRealTime /\ [][NextRealTime]_vars

----------------------------------------------------------------------------
(* Claims. *)

IsCall(fn) == call.fn = fn

IsBrainCall == call.fn = "brain.query_post_discharge_guardian"
IsBrain2Call == call.fn = "brain2.query_post_discharge_guardian"

\* C1: a query that contains one of the function's red-flag phrases, compared
\* case-insensitively, gets the function's fixed emergency message, which
\* contains "EMERGENCY", and the call makes no external call at all: no
\* knowledge-base lookup, no translation, no LLM invocation; it does not raise.
C1_RedFlagShortCircuits ==
    /\ (IsBrainCall /\ (\E f \in brain_red_flags : Contains(lower(call.user_query), f)))
           => /\ result = brain_EMERGENCY
              /\ Contains(result, EMERGENCY_WORD)
              /\ ~raised
              /\ log = <<>>
    /\ (IsBrain2Call /\ (\E f \in brain2_red_flags : Contains(lower(call.user_query), f)))
           => /\ result = brain2_EMERGENCY
              /\ Contains(result, EMERGENCY_WORD)
              /\ ~raised
              /\ log = <<>>

\* C1 witness: brain2 answered a mixed-case red-flag query with the knowledge
\* base present.
C1_Witness ==
    /\ IsBrain2Call
    /\ call.user_query = F_hi \o F_ChestPain
    /\ kb_exists
    /\ result = brain2_EMERGENCY

\* C2: in process_text, and in communicate which delegates to it, a safety
\* gate runs after the translation to English and before the backend: when the
\* English query holds a red-flag phrase (case-insensitively), the LLM backend
\* is not queried and the response is not one of the fallback responder's.
C2_SafetyGateBeforeBackend ==
    /\ IsCall("TT.process_text")
           => (RedFlagHit(brain_red_flags, result.english_query)
                   => /\ Calls(log, "requests.post") = {}
                      /\ result.ai_response_english \notin FallbackSet)
    /\ (IsCall("UNI.communicate") /\ "conversation_details" \in DOMAIN result)
           => (RedFlagHit(brain_red_flags, result.conversation_details.english_query)
                   => /\ Calls(log, "requests.post") = {}
                      /\ result.conversation_details.ai_response_english \notin FallbackSet)

IsDetectCall == IsCall("TT.detect_language") \/ IsCall("ATT.detect_language")

\* C3 as stated: detect_language of either bot gives 'en' for every pure-ASCII
\* text and 'ml' for every text with at least one character of the Malayalam
\* Unicode block.
C3_Original ==
    IsDetectCall =>
        /\ isascii(call.text) => result = TAG_en
        /\ BlockHasMalayalamChar(call.text) => result = TAG_ml

\* C3 amended: detect_language of either bot gives 'en' for every pure-ASCII
\* text and 'ml' for every text with at least one character of the fixed set
\* malayalam_chars, whatever its other characters are.
C3_DetectLanguage ==
    IsDetectCall =>
        /\ ~raised
        /\ isascii(call.text) => result = TAG_en
        /\ HasMalayalamChar(call.text) => result = TAG_ml

\* C3 witness: the audio bot found Malayalam in a text that mixes an accented
\* Latin letter and a Malayalam word.
C3_Witness ==
    /\ IsCall("ATT.detect_language")
    /\ call.text = F_eacute \o F_vedana
    /\ result = TAG_ml

\* C4: for a text with no character of malayalam_chars that is not pure
\* ASCII, TextToTextBot.detect_language calls the auto-detect translation
\* exactly once, on the text, and returns 'ml' when what came back differs
\* from the text, 'en' when it equals the text and 'en' when the call raised;
\* detect_language never raises and returns 'ml' or 'en' on every text.
C4_AutoDetectFallback ==
    IsCall("TT.detect_language") =>
        /\ ~raised
        /\ result \in {TAG_ml, TAG_en}
        /\ (~HasMalayalamChar(call.text) /\ ~isascii(call.text))
               => /\ Len(log) = 1
                  /\ log[1].op = "auto.translate"
                  /\ log[1].arg = call.text
                  /\ log[1].out = RAISED => result = TAG_en
                  /\ log[1].out = call.text => result = TAG_en
                  /\ log[1].out \notin {RAISED, call.text} => result = TAG_ml
        /\ (HasMalayalamChar(call.text) \/ isascii(call.text)) => log = <<>>

\* C4 witness: the auto-detect translation raised on a text of one Malayalam
\* chillu letter and an accented letter, and the answer was 'en'.
C4_Witness ==
    /\ IsCall("TT.detect_language")
    /\ call.text = F_chillu \o F_eacute
    /\ Len(log) = 1
    /\ log[1].out = RAISED
    /\ result = TAG_en

IsTranslateCall ==
    call.fn \in {"TT.translate_to_malayalam", "TT.translate_to_english",
                 "TT.auto_translate_to_english", "ATT.translate_to_malayalam",
                 "ATT.translate_to_english"}

\* C5: when the translation service raises, each of the five translation
\* functions returns exactly its input and raises nothing; the service is
\* called once, on the input.
C5_FailOpen ==
    IsTranslateCall =>
        /\ ~raised
        /\ Len(log) = 1
        /\ log[1].arg = call.text
        /\ log[1].out = RAISED => result = call.text

\* C5 witness: the service raised under the audio bot's translate_to_malayalam
\* and the text came back unchanged.
C5_Witness ==
    /\ IsCall("ATT.translate_to_malayalam")
    /\ call.text = F_hi \o F_fever
    /\ log[1].out = RAISED
    /\ result = F_hi \o F_fever

IsTextCommunicate ==
    /\ IsCall("UNI.communicate")
    /\ call.input_type = "text"
    /\ call.input_data # None

\* The backend is unavailable in this call: it is switched off, or the POST
\* raised (connection error, timeout) or was answered with a non-200 status.
BackendUnavailable ==
    \/ ~use_ollama
    \/ \E i \in Calls(log, "requests.post") : log[i].out \in {RAISED, HTTP_NON200}

\* C6 as stated: with the backend unavailable, every call of communicate()
\* with text input returns a text_response that is not None and is one of the
\* canned strings of get_fallback_response.
C6_Original ==
    (IsTextCommunicate /\ BackendUnavailable) =>
        /\ "text_response" \in DOMAIN result
        /\ result.text_response # None
        /\ result.text_response \in FallbackSet

\* C6 amended: with the backend unavailable and the text subsystem available,
\* every call of communicate() with text input succeeds; its English response
\* is one of the canned strings of get_fallback_response and its
\* text_response is not None: it is what translate_to_malayalam made of that
\* canned string, the canned string itself when the translation raised or
\* returned nothing.
C6_FallbackThenTranslated ==
    (IsTextCommunicate /\ BackendUnavailable /\ TEXT_BOT_AVAILABLE) =>
        /\ ~raised
        /\ result.success
        /\ result.conversation_details.ai_response_english \in FallbackSet
        /\ result.text_response # None
        /\ \E i \in Calls(log, "en_to_ml.translate") :
            /\ log[i].arg = result.conversation_details.ai_response_english
            /\ result.text_response =
                   IF log[i].out = RAISED \/ Falsy(log[i].out)
                       THEN result.conversation_details.ai_response_english
                   ELSE log[i].out

\* C6 witness: the backend answered 503 to a medical question about fever and
\* the user got the Malayalam translation of the symptom message.
C6_Witness ==
    /\ IsTextCommunicate
    /\ call.input_data = F_fever
    /\ call.context = "medical"
    /\ \E i \in Calls(log, "requests.post") : log[i].out = HTTP_NON200
    /\ result.success
    /\ result.conversation_details.ai_response_english = FALLBACK_SYMPTOM
    /\ result.text_response = ML_NAMASKARAM

\* The backend query yielded no answer in this call: the backend is switched
\* off, or the POST raised, timed out, or was answered with a non-200 status,
\* a malformed body or a null response.
NoBackendAnswer ==
    \/ ~use_ollama
    \/ \E i \in Calls(log, "requests.post") :
        log[i].out \in {RAISED, HTTP_NON200, HTTP_MALFORMED, None}

\* C7: in process_text and process_audio_input, whenever the backend query
\* yields no answer the fallback is substituted: in a successful result
\* neither the English AI response nor the final response is None.
C7_NeverNoResponse ==
    /\ (IsCall("TT.process_text") /\ NoBackendAnswer /\ result.success)
           => /\ result.ai_response_english # None
              /\ result.final_response # None
    /\ (IsCall("ATT.process_audio_input") /\ NoBackendAnswer /\ result.success)
           => /\ result.ai_response # None
              /\ result.malayalam_response # None

\* C8: communicate() with input_type 'audio' while the audio subsystem is
\* unavailable returns success == False with the error 'Audio input not
\* available', raises nothing and calls nothing: no transcription, no text
\* processing, no speech synthesis, no persistence.
C8_AudioInputUnavailable ==
    (IsCall("UNI.communicate") /\ call.input_type = "audio" /\ ~AUDIO_BOT_AVAILABLE) =>
        /\ ~raised
        /\ result.success = FALSE
        /\ "error" \in DOMAIN result
        /\ result.error = ERR_AUDIO_INPUT
        /\ log = <<>>
        /\ DOMAIN result \cap {"user_input", "text_response", "conversation_details",
                               "audio_response", "saved_file"} = {}

\* C8 witness: audio in, both out, saving asked for, text subsystem present,
\* audio subsystem missing.
C8_Witness ==
    /\ IsCall("UNI.communicate")
    /\ call.input_type = "audio"
    /\ call.output_type = "both"
    /\ call.save_conversation
    /\ ~AUDIO_BOT_AVAILABLE
    /\ TEXT_BOT_AVAILABLE
    /\ result.success = FALSE

\* The call ended with an error about a missing subsystem.
MissingSubsystemError ==
    /\ "error" \in DOMAIN result
    /\ result.error \in {ERR_AUDIO_INPUT, ERR_TEXT_UNAVAILABLE}

ReachedTextStep == "user_input" \in DOMAIN result

IsPair == IsCall("TT.process_text twice")

\* The requests posted to the backend in a run.
Posted(l) == {l[i].request : i \in Calls(l, "requests.post")}

\* The backend answered with a text in a run.
Answered(l) ==
    \E i \in Calls(l, "requests.post") :
        l[i].out \notin {RAISED, HTTP_NON200, HTTP_MALFORMED, None}

\* C10 as stated: for two calls that differ in the context tag only, the
\* request sent to the backend is the same, and when the backend answers the
\* responses returned are the same.
C10_Original ==
    IsPair =>
        /\ Posted(log.first) = Posted(log.second)
        /\ (Answered(log.first) /\ Answered(log.second))
               => result.first.final_response = result.second.final_response

\* C10 amended: the context tag selects the wording of the prompt sent to the
\* backend as well as the canned fallback text, and nothing else.  For two
\* calls that differ in the context tag only: the detected language, the
\* English query and the response language are the same; a request is posted
\* in both or in neither, to the same URL, with the same model, stream flag
\* and timeout, each prompt holding the same English query inside the wording
\* of its own context; and when the backend gives both the same answer, the
\* English response and the final response are the same.
C10_ContextSelectsPromptAndFallback ==
    IsPair =>
        /\ result.first.user_language = result.second.user_language
        /\ result.first.english_query = result.second.english_query
        /\ result.first.response_language = result.second.response_language
        /\ Len(log.first) = Len(log.second)
        /\ \A i \in 1..Len(log.first) : log.first[i].op = log.second[i].op
        /\ \A i \in Calls(log.first, "requests.post") :
            LET q1 == log.first[i].request
                q2 == log.second[i].request
            IN  /\ q1.url = q2.url
                /\ q1.model = q2.model
                /\ q1.stream = q2.stream
                /\ q1.timeout = q2.timeout
                /\ q1.prompt = TT_prompt(result.first.english_query, call.context1)
                /\ q2.prompt = TT_prompt(result.first.english_query, call.context2)
                /\ Contains(q1.prompt, result.first.english_query)
                /\ Contains(q2.prompt, result.first.english_query)
        /\ (Answered(log.first) /\ Answered(log.second))
               => /\ result.first.ai_response_english = result.second.ai_response_english
                  /\ result.first.final_response = result.second.final_response

\* C10 witness: the same Malayalam text asked in the medical and in the
\* technical context, the backend answering both; the prompts differ.
C10_Witness ==
    /\ IsPair
    /\ call.user_input = F_vedana
    /\ call.context1 = "medical"
    /\ call.context2 = "technical"
    /\ Answered(log.first)
    /\ Answered(log.second)
    /\ Posted(log.first) # Posted(log.second)
    /\ result.first.final_response = ML_NAMASKARAM

IsLoopTurn(fn) == call.fn = fn

\* C12: in the loops of brain.py and brain2.py an empty input line makes the
\* loop prompt again without processing: query_post_discharge_guardian is not
\* called, the conversation history and the rest of the session are as they
\* were, and the loop is still running.
C12_EmptyLineReprompts ==
    ((IsLoopTurn("brain.__main__") \/ IsLoopTurn("brain2.__main__")) /\ call.line = EMPTY)
        => /\ Calls(log, "query_post_discharge_guardian") = {}
           /\ session = call.before
           /\ session.running
           /\ ~raised

\* C14: without the knowledge-base directory, a query that is no emergency
\* gets a message that reports the missing resource; nothing is looked up,
\* the LLM is not invoked, nothing is tried twice and nothing is raised.
C14_MissingKnowledgeBase ==
    /\ (IsBrainCall /\ ~kb_exists /\ ~RedFlagHit(brain_red_flags, call.user_query))
           => /\ ~raised
              /\ result = brain_NO_MEMORY
              /\ log = <<>>
    /\ (IsBrain2Call /\ ~kb_exists /\ ~RedFlagHit(brain2_red_flags, call.user_query))
           => /\ ~raised
              /\ result # None
              /\ log = <<>>

IsChatTurn == IsLoopTurn("TT.interactive_mode") \/ IsLoopTurn("UNI.interactive_chat")

IsBotLoopTurn == IsChatTurn \/ IsLoopTurn("ATT.interactive_audio_mode")

\* The positions of the log at which a loop called a pipeline.
PipelineCalls(l) ==
    {i \in 1..Len(l) : l[i].op \in {"process_text", "communicate", "process_audio_input"}}

\* The line as the loop looks at it: stripped and in lower case.
Typed(line) == lower(strip(line))

\* C11: in interactive_mode and interactive_chat an empty line, or a line of
\* white space only, makes the loop prompt again without processing: nothing
\* is called, and context, output mode, auto-save flag, conversation history
\* and conversation count are as they were.
C11_BlankLineReprompts ==
    (IsChatTurn /\ strip(call.line) = EMPTY)
        => /\ log = <<>>
           /\ session = call.before
           /\ session.running
           /\ ~raised

\* C11 witness: a line of spaces typed in interactive_mode after one turn, in
\* the medical context.
C11_Witness ==
    /\ IsLoopTurn("TT.interactive_mode")
    /\ call.line = L_blank
    /\ Len(call.before.conversation_history) = 1
    /\ call.before.context = "medical"
    /\ session = call.before

\* An exception was raised inside the try of the iteration: input() met the
\* end of input, /save could not write its file, or the pipeline raised.
ExceptionRaised ==
    \/ call.line = EOF
    \/ (IsLoopTurn("ATT.interactive_audio_mode") /\ call.files_line = EOF)
    \/ \E i \in Calls(log, "open.write") : log[i].out = RAISED
    \/ \E i \in PipelineCalls(log) : log[i].ret = CallRaised

\* The user asked the loop to end: the exit command of the loop, or Ctrl+C.
AskedToEnd ==
    \/ call.line = INTERRUPT
    \/ (IsChatTurn /\ Typed(call.line) = CMD_exit)
    \/ (IsLoopTurn("ATT.interactive_audio_mode")
            /\ (Typed(call.line) = L_exit \/ call.files_line = INTERRUPT))

\* C13: in interactive_mode, interactive_chat and interactive_audio_mode no
\* exception raised while one input is handled leaves the loop: the loop goes
\* on to the next prompt with the session as it was, and it ends only on the
\* exit command or on an interrupt.
C13_ExceptionsCaught ==
    IsBotLoopTurn =>
        /\ ~raised
        /\ ExceptionRaised => (session = call.before /\ session.running)
        /\ ~session.running => AskedToEnd

\* C13 witness: /save could not write the session file of a session with a
\* turn in its history, and the loop went on.
C13_Witness ==
    /\ IsLoopTurn("TT.interactive_mode")
    /\ \E i \in Calls(log, "open.write") : log[i].out = RAISED
    /\ Len(session.conversation_history) = 1
    /\ session.running
    /\ ~raised

\* One of the slash-commands the claim lists.
IsSlashCommand(line) ==
    \/ StartsWith(Typed(line), CMD_context)
    \/ StartsWith(Typed(line), CMD_mode)
    \/ Typed(line) \in {CMD_save, CMD_history, CMD_english, CMD_malayalam}

\* C15 as stated: in the chat loops, handling /context, /mode, /save,
\* /history, /english or /malayalam never invokes the pipeline, never changes
\* the conversation history or count, and has no effect outside the session
\* settings in memory.
C15_Original ==
    (IsChatTurn /\ IsSlashCommand(call.line))
        => /\ log = <<>>
           /\ IsLoopTurn("TT.interactive_mode")
                  => session.conversation_history = call.before.conversation_history
           /\ IsLoopTurn("UNI.interactive_chat")
                  => session.conversation_count = call.before.conversation_count

\* A slash-command of interactive_mode.
IsTTCommand(line) ==
    \/ StartsWith(Typed(line), CMD_context)
    \/ Typed(line) \in {CMD_english, CMD_malayalam, CMD_save, CMD_history}

\* A slash-command of interactive_chat.
IsUNICommand(line) ==
    \/ StartsWith(Typed(line), CMD_mode)
    \/ StartsWith(Typed(line), CMD_context)
    \/ Typed(line) = CMD_save

\* C15 amended: the slash-commands of each loop (interactive_mode: /context,
\* /english, /malayalam, /save, /history; interactive_chat: /mode, /context,
\* /save) never invoke the pipeline and never change the conversation history
\* or count; each changes at most its own setting; the only effect outside
\* the session is the file that /save of interactive_mode writes, holding the
\* history, when the history is not empty.  A line that is a command of the
\* other loop only is handled as a message.
C15_OwnCommandsSettingsOnly ==
    /\ (IsLoopTurn("TT.interactive_mode") /\ IsTTCommand(call.line))
           => /\ PipelineCalls(log) = {}
              /\ ~raised
              /\ session.running
              /\ session.conversation_history = call.before.conversation_history
              /\ StartsWith(Typed(call.line), CMD_context)
                     => session = [call.before EXCEPT !.context = session.context]
              /\ Typed(call.line) \in {CMD_english, CMD_malayalam}
                     => session = [call.before EXCEPT !.respond_in_malayalam =
                                                          (Typed(call.line) = CMD_malayalam)]
              /\ Typed(call.line) \in {CMD_save, CMD_history} => session = call.before
              /\ (Typed(call.line) # CMD_save \/ call.before.conversation_history = <<>>)
                     => log = <<>>
              /\ \A i \in 1..Len(log) :
                     /\ log[i].op = "open.write"
                     /\ log[i].content = call.before.conversation_history
    /\ (IsLoopTurn("UNI.interactive_chat") /\ IsUNICommand(call.line))
           => /\ log = <<>>
              /\ ~raised
              /\ session.running
              /\ session.conversation_count = call.before.conversation_count
              /\ StartsWith(Typed(call.line), CMD_mode)
                     => session = [call.before EXCEPT !.output_mode = session.output_mode]
              /\ StartsWith(Typed(call.line), CMD_context)
                     => session = [call.before EXCEPT !.context = session.context]
              /\ Typed(call.line) = CMD_save
                     => session = [call.before EXCEPT !.auto_save = ~call.before.auto_save]
    /\ (IsLoopTurn("TT.interactive_mode") /\ StartsWith(Typed(call.line), CMD_mode))
           => Calls(log, "process_text") # {}
    /\ (IsLoopTurn("UNI.interactive_chat")
            /\ Typed(call.line) \in {CMD_history, CMD_english, CMD_malayalam})
           => Calls(log, "communicate") # {}

\* C15 witness: /context switched a session of interactive_mode with a turn
\* in its history from general to technical.
C15_Witness ==
    /\ IsLoopTurn("TT.interactive_mode")
    /\ call.line = LINE_Context_Technical
    /\ call.before.context = "general"
    /\ session.context = "technical"
    /\ Len(session.conversation_history) = 1

\* C18: a conversation result is not changed after process_text returned it.
\* In interactive_mode the turns already in the history stay as they are, a
\* message appends exactly what process_text returned, and /save writes the
\* history as it is.  In communicate, called by interactive_chat, the
\* conversation_details of the result are the conversation that
\* save_conversation was given.
C18_ResultNeverMutated ==
    /\ IsLoopTurn("TT.interactive_mode")
           => /\ Len(session.conversation_history) >= Len(call.before.conversation_history)
              /\ SubSeq(session.conversation_history, 1,
                        Len(call.before.conversation_history))
                     = call.before.conversation_history
              /\ \A i \in Calls(log, "process_text") :
                     (log[i].ret # CallRaised /\ log[i].ret.success)
                         => session.conversation_history
                                = Append(call.before.conversation_history, log[i].ret)
              /\ \A i \in Calls(log, "open.write") :
                     /\ log[i].content = call.before.conversation_history
                     /\ session.conversation_history = call.before.conversation_history
    /\ IsLoopTurn("UNI.interactive_chat")
           => \A i \in Calls(log, "communicate") :
                  \A j \in Calls(log, "save_conversation") :
                      /\ "conversation_details" \in DOMAIN log[i].ret
                      /\ log[i].ret.conversation_details = log[j].conversation

\* C18 witness: communicate saved the conversation of a turn of
\* interactive_chat and returned it as conversation_details.
C18_Witness ==
    /\ IsLoopTurn("UNI.interactive_chat")
    /\ call.before.auto_save
    /\ \E i \in Calls(log, "communicate") :
           /\ log[i].ret.success
           /\ log[i].ret.saved_file = SAVED_FILE
           /\ \E j \in Calls(log, "save_conversation") :
                  log[i].ret.conversation_details = log[j].conversation

\* The services a turn may call: the LLM backends, the three translators,
\* the vector store, the transcriber and the speech synthesizer.
Services ==
    {"requests.post", "llm.invoke", "similarity_search", "en_to_ml.translate",
     "ml_to_en.translate", "auto.translate", "whisper.transcribe", "gTTS.save"}

\* C16: nothing is retried: in one call of process_text,
\* process_audio_input, communicate or query_post_discharge_guardian the LLM
\* backend is queried at most once, each translator (English to Malayalam,
\* Malayalam to English, auto-detect to English) is invoked at most once,
\* transcription at most once, speech synthesis at most once and the vector
\* store at most once, whatever those calls return or raise.
C16_NoRetry ==
    ~Idle => \A op \in Services : Cardinality(Calls(log, op)) <= 1

\* C16 witness: the backend did not answer and the translation to Malayalam
\* raised, in a call of communicate that asked for audio; each was called
\* once and the call went on to synthesis.
C16_Witness ==
    /\ IsCall("UNI.communicate")
    /\ \E i \in Calls(log, "requests.post") : log[i].out = RAISED
    /\ \E i \in Calls(log, "en_to_ml.translate") : log[i].out = RAISED
    /\ Calls(log, "gTTS.save") # {}
    /\ result.success

\* The external calls of the text processing step.
TextOps == {"auto.translate", "ml_to_en.translate", "requests.post", "en_to_ml.translate"}

\* The positions of the log at which the text processing step made a call.
TextCalls(l) == {i \in 1..Len(l) : l[i].op \in TextOps}

\* C19: communicate runs its steps in a fixed order, the optional ones only
\* when asked for: transcription only for audio input and before anything
\* else; synthesis only for output_type 'audio' or 'both', after the text
\* processing, on the text response; persistence only when save_conversation
\* is set, last, on the conversation returned; a call that fails (at
\* transcription or at text processing) runs neither synthesis nor
\* persistence, and a failed transcription is followed by nothing at all; a
\* call that succeeds has run every step it was asked for.
C19_StepsInOrder ==
    IsCall("UNI.communicate") =>
        /\ \A i \in Calls(log, "whisper.transcribe") :
               /\ call.input_type = "audio"
               /\ i = 1
               /\ log[i].out = RAISED => Len(log) = 1
        /\ \A i \in TextCalls(log) :
               \A j \in Calls(log, "gTTS.save") \cup Calls(log, "save_conversation") : i < j
        /\ \A j \in Calls(log, "gTTS.save") :
               /\ call.output_type \in {"audio", "both"}
               /\ "text_response" \in DOMAIN result
               /\ log[j].arg = result.text_response
               /\ \A k \in Calls(log, "save_conversation") : j < k
        /\ \A k \in Calls(log, "save_conversation") :
               /\ call.save_conversation
               /\ k = Len(log)
               /\ log[k].conversation = result.conversation_details
        /\ ~result.success
               => /\ Calls(log, "gTTS.save") = {}
                  /\ Calls(log, "save_conversation") = {}
        /\ result.success
               => /\ (call.input_type = "audio") = (Calls(log, "whisper.transcribe") # {})
                  /\ (call.output_type \in {"audio", "both"} /\ AUDIO_BOT_AVAILABLE)
                         = (Calls(log, "gTTS.save") # {})
                  /\ call.save_conversation = (Calls(log, "save_conversation") # {})

\* C19 witness: an audio question in Malayalam, answered with text and audio
\* and saved: transcription, translation, synthesis and persistence, in this
\* order.
C19_Witness ==
    /\ IsCall("UNI.communicate")
    /\ call.input_type = "audio"
    /\ call.output_type = "both"
    /\ call.save_conversation
    /\ result.success
    /\ Len(log) = 5
    /\ log[1].op = "whisper.transcribe"
    /\ log[2].op = "ml_to_en.translate"
    /\ log[3].op = "en_to_ml.translate"
    /\ log[4].op = "gTTS.save"
    /\ log[5].op = "save_conversation"

\* The query of the call has a symptom keyword: 'fever', 'pain', 'sick', 'ill'.
HasSymptomWord ==
    \E word \in {KW_fever, KW_pain, KW_sick, KW_ill} :
        Contains(lower(call.english_query), word)

\* The query of the call has a medication keyword: 'medicine', 'drug',
\* 'medication'.
HasMedicationWord ==
    \E word \in {KW_medicine, KW_drug, KW_medication} :
        Contains(lower(call.english_query), word)

\* C20 as stated: the fallback responder gives one of a fixed set of
\* non-empty strings, and a query with a symptom keyword gets the triage
\* message, also when it has a medication keyword too.
C20_Original ==
    IsCall("TT.get_fallback_response") =>
        /\ result \in FallbackSet
        /\ result # EMPTY
        /\ HasSymptomWord => result = FALLBACK_SYMPTOM

\* C20 amended: the keywords count in the medical context only.  There, a
\* query with a symptom keyword gets the triage message, also when it has a
\* medication keyword too, a query with a medication keyword only gets the
\* medication message, and a query with no keyword the medical deflection;
\* in the technical context every query gets the technical deflection and
\* in any other context the general one.  The result is one of these five
\* non-empty strings, and the case of the query's letters plays no part.
C20_KeywordsInMedicalContext ==
    IsCall("TT.get_fallback_response") =>
        /\ result \in FallbackSet
        /\ \A r \in FallbackSet : r # EMPTY
        /\ result =
               IF call.context = "medical"
                   THEN IF HasSymptomWord THEN FALLBACK_SYMPTOM
                        ELSE IF HasMedicationWord THEN FALLBACK_MEDICATION
                        ELSE FALLBACK_MEDICAL
               ELSE IF call.context = "technical" THEN FALLBACK_TECHNICAL
               ELSE FALLBACK_GENERAL

\* C20 witness: a medical query with 'fever' and 'Medicine' got the triage
\* message.
C20_Witness ==
    /\ IsCall("TT.get_fallback_response")
    /\ call.english_query = F_fever \o F_medicine
    /\ call.context = "medical"
    /\ result = FALLBACK_SYMPTOM

\* The playback threads that hold reply.mp3: they have written it and have
\* not removed it yet.
RTHolders == RTThreadsAt("play") \cup RTThreadsAt("playing") \cup RTThreadsAt("remove")

\* C17: the playback threads do not interfere.  Under every interleaving of
\* the listen loop with the playback threads, a thread that has written
\* reply.mp3 and has not removed it yet still finds its own speech in the
\* file (no other thread has overwritten or deleted it), a thread plays its
\* own speech only, and no thread fails because the file it is about to
\* remove is gone; temp.wav is there while the main thread works on it.
C17_NoInterference ==
    rt.pc # "none" =>
        /\ \A t \in RTHolders : rt.reply.exists /\ rt.reply.by = t
        /\ \A t \in 1..Len(rt.threads) :
               /\ rt.threads[t].played \in {0, t}
               /\ rt.threads[t].pc # "failed"
        /\ rt.pc \in {"transcribe", "remove_temp"} => rt.temp

\* The spec's bucket test: the chunk has a source name, and the name contains
\* "Portfolio" or "person" as written.
C21_IsPatientFact(d) ==
    /\ d.metadata.source # None
    /\ Contains(d.metadata.source, Portfolio) \/ Contains(d.metadata.source, person)

C21_IsGeneralRule(d) == ~C21_IsPatientFact(d)

\* The chunks of ds, one after the other, each after a line break.
RECURSIVE C21_Chunks(_)
C21_Chunks(ds) ==
    IF ds = <<>> THEN EMPTY ELSE <<10>> \o ds[1].page_content \o C21_Chunks(Tail(ds))

\* brain2 retrieved chunks and built its prompt from them.
Brain2Prompted == IsBrain2Call /\ Calls(log, "llm.invoke") # {}

\* C21: in brain2's query_post_discharge_guardian every retrieved chunk is in
\* exactly one of the two buckets of the prompt, in retrieval order: the
\* patient-facts section holds the chunks whose source name contains
\* "Portfolio" or "person" (case-sensitive), the general-rules section holds
\* all the others, a chunk without source metadata among them; no chunk is
\* dropped and none appears twice.
C21_BucketsPartition ==
    Brain2Prompted =>
        LET docs  == log[1].docs
            facts == SelectSeq(docs, C21_IsPatientFact)
            rules == SelectSeq(docs, C21_IsGeneralRule)
        IN  /\ log[1].op = "similarity_search"
            /\ Len(facts) + Len(rules) = Len(docs)
            /\ \A i \in Calls(log, "llm.invoke") :
                  Contains(log[i].arg,
                           brain2_P2 \o C21_Chunks(facts) \o brain2_P3 \o C21_Chunks(rules)
                               \o brain2_P4)

\* C21 witness: the search returned a chunk of "old_portfolio_Person.pdf",
\* which is a general rule, and then a chunk of "Arthur_Portfolio.pdf", which
\* is a patient fact; the LLM answered.
C21_Witness ==
    /\ Brain2Prompted
    /\ log[1].docs = <<Doc(PC_old, SRC_lower), Doc(PC_facts, SRC_portfolio)>>
    /\ result = LLM_ANSWER

\* The history ends with before, then one entry for this line and response.
C22_OneEntryAdded(before, after, line, response) ==
    after = before \o brain2_H_PATIENT \o line \o brain2_H_ASSISTANT \o response \o brain2_H_END

\* C22: in the brain2 session the conversation-history section of the prompt
\* is the trailing slice of the accumulated history, at most HISTORY_BUDGET
\* characters long, and the accumulated history only grows: the history
\* before a turn is a prefix of the history after it, and every turn that is
\* not an exit, an emergency reply included, adds exactly one
\* "Patient: <line>\nAssistant: <response>\n" entry at its end.
C22_HistoryGrowsByOneEntry ==
    IsLoopTurn("brain2.__main__") =>
        LET before == call.before.chat_history
            after  == session.chat_history
        IN  /\ Len(after) >= Len(before)
            /\ SubSeq(after, 1, Len(before)) = before
            /\ \A i \in Calls(log, "llm.invoke") :
                  /\ Len(LastChars(before, HISTORY_BUDGET)) <= HISTORY_BUDGET
                  /\ Contains(log[i].arg,
                              brain2_P1 \o LastChars(before, HISTORY_BUDGET) \o brain2_P2)
            /\ lower(call.line) \notin {L_exit, L_quit}
                  => \E response \in {LLM_ANSWER, brain2_EMERGENCY} :
                        C22_OneEntryAdded(before, after, call.line, response)

\* The query of the brain.py call contains one of its red-flag phrases.
C23_RedFlag == \E f \in brain_red_flags : Contains(lower(call.user_query), f)

\* The similarity search of the call returned at least one chunk.
C23_ChunksFound ==
    /\ log # <<>>
    /\ log[1].op = "similarity_search"
    /\ "docs" \in DOMAIN log[1]
    /\ log[1].docs # <<>>

\* C23: brain.py's query_post_discharge_guardian applies its checks in a
\* fixed order.  A red-flag query gets the emergency message and nothing is
\* looked up, with or without the knowledge base; otherwise a missing
\* knowledge base gives its error message and nothing is looked up; otherwise
\* the search comes first, a search that returns no chunk gives the
\* 'no matching info' message, and the LLM is invoked exactly when the three
\* checks passed: no red flag, the knowledge base exists, the search returned
\* a chunk.
C23_ChecksInOrder ==
    IsBrainCall =>
        /\ C23_RedFlag => (result = brain_EMERGENCY /\ log = <<>> /\ ~raised)
        /\ (~C23_RedFlag /\ ~kb_exists) => (result = brain_NO_MEMORY /\ log = <<>> /\ ~raised)
        /\ (~C23_RedFlag /\ kb_exists) =>
              /\ log # <<>>
              /\ log[1].op = "similarity_search"
              /\ log[1].arg = call.user_query
              /\ ("docs" \in DOMAIN log[1] /\ log[1].docs = <<>>)
                    => (result = brain_NO_MATCH /\ ~raised /\ Len(log) = 1)
        /\ Calls(log, "llm.invoke") # {}
              <=> (~C23_RedFlag /\ kb_exists /\ C23_ChunksFound)
        /\ Calls(log, "llm.invoke") \subseteq {2}

\* C23 witness: a red-flag query without the knowledge base got the
\* emergency message, not the missing-memory error.
C23_Witness ==
    /\ IsBrainCall
    /\ ~kb_exists
    /\ call.user_query = F_hi \o F_ChestPain
    /\ result = brain_EMERGENCY

IsBuildCall == IsCall("brain.build_medical_database")

\* The PDF files of the folder, in the order of the listing, by the spec's
\* words: the names that end in ".pdf".
C24_Pdfs == SelectSeq(call.listing, LAMBDA f : f \in {FILE_guide, FILE_portfolio})

\* The read events of the log, in order.
C24_Reads == SelectSeq(log, LAMBDA e : e.op = "PyPDFLoader.load")

\* The chunks collected by the reads of rs that did not fail.
RECURSIVE C24_Collected(_)
C24_Collected(rs) ==
    IF rs = <<>> THEN <<>>
    ELSE (IF "chunks" \in DOMAIN rs[1] THEN rs[1].chunks ELSE <<>>) \o C24_Collected(Tail(rs))

\* C24: build_medical_database writes the vector store at most once, and
\* only when at least one chunk was extracted.  Without the documents folder
\* nothing is read and nothing written.  With it, every PDF of the folder is
\* read, in order, whether or not an earlier one failed, and the store, when
\* written, gets all the chunks of the files that could be read.  When no
\* chunk was collected the store is neither created nor modified.
C24_StoreWrittenOnce ==
    IsBuildCall =>
        LET writes    == Calls(log, "Chroma.from_documents")
            collected == C24_Collected(C24_Reads)
        IN  /\ Cardinality(writes) <= 1
            /\ \A i \in writes : log[i].chunks # <<>> /\ log[i].chunks = collected /\ i = Len(log)
            /\ ~call.folder_exists => (log = <<>> /\ ~raised /\ kb_exists = call.kb_before)
            /\ call.folder_exists =>
                  /\ Len(C24_Reads) = Len(C24_Pdfs)
                  /\ \A i \in 1..Len(C24_Reads) : C24_Reads[i].arg = C24_Pdfs[i]
            /\ collected = <<>> => (writes = {} /\ ~raised /\ kb_exists = call.kb_before)
            /\ kb_exists # call.kb_before => writes # {}

\* C24 witness: the first PDF could not be read, the second gave two chunks,
\* and the store was written with these two; there was no store before.
C24_Witness ==
    /\ IsBuildCall
    /\ call.listing = <<FILE_guide, FILE_readme, FILE_portfolio>>
    /\ ~call.kb_before
    /\ C24_Reads[1] = Ev("PyPDFLoader.load", FILE_guide, RAISED)
    /\ log[Len(log)] = StoreEv(<<Doc(PC_facts, FILE_portfolio), Doc(PC_rules, FILE_portfolio)>>, None, TRUE)
    /\ kb_exists
    /\ ~raised

\* The keys of the dict that communicate returned.
C25_Keys == DOMAIN result

\* C25: communicate() never raises to its caller, and of every result it
\* returns: success is False if and only if there is an 'error' key; success
\* implies that 'user_input' and 'text_response' are there; 'audio_response'
\* is there only if output_type is 'audio' or 'both'; 'saved_file' is there
\* only if save_conversation was asked for.
C25_ResultShape ==
    IsCall("UNI.communicate") =>
        /\ ~raised
        /\ result.success \in BOOLEAN
        /\ (result.success = FALSE) <=> ("error" \in C25_Keys)
        /\ result.success => {"user_input", "text_response"} \subseteq C25_Keys
        /\ "audio_response" \in C25_Keys => call.output_type \in {"audio", "both"}
        /\ "saved_file" \in C25_Keys => call.save_conversation

\* C25 witness: process_text raised on an input of None inside a call that
\* asked for audio and for saving; the exception became the 'error' of a
\* result without success, audio or saved file.
C25_Witness ==
    /\ IsCall("UNI.communicate")
    /\ call.input_data = None
    /\ call.output_type = "both"
    /\ call.save_conversation
    /\ ~raised
    /\ ~result.success
    /\ result.error = EXC_MESSAGE
    /\ C25_Keys \cap {"text_response", "audio_response", "saved_file"} = {}

IsAudioCall == IsCall("ATT.process_audio_input")

\* The transcription of the call failed: the file was missing, so that the
\* transcriber was not run, or the transcriber raised.
C26_TranscriptionFailed ==
    \A i \in Calls(log, "whisper.transcribe") : log[i].out = RAISED

\* C26: in process_audio_input a failed transcription gives a result with
\* success False, an 'error' and user_text None, and nothing else is invoked:
\* no save_transcript, no translation, no LLM query, no speech synthesis.
\* Otherwise the result has success True, also when the LLM query, a
\* translation or the speech synthesis failed.
C26_TranscriptionGate ==
    IsAudioCall =>
        /\ ~raised
        /\ C26_TranscriptionFailed =>
              /\ result.success = FALSE
              /\ "error" \in DOMAIN result
              /\ result.user_text = None
              /\ \A i \in 1..Len(log) : log[i].op = "whisper.transcribe"
        /\ ~C26_TranscriptionFailed =>
              /\ result.success = TRUE
              /\ "error" \notin DOMAIN result

\* C26 witness: the audio was transcribed, then the backend did not answer,
\* the translation to Malayalam raised and the synthesis raised; the result
\* has success True all the same.
C26_Witness ==
    /\ IsAudioCall
    /\ ~C26_TranscriptionFailed
    /\ \E i \in Calls(log, "requests.post") : log[i].out = RAISED
    /\ \E i \in Calls(log, "en_to_ml.translate") : log[i].out = RAISED
    /\ \E i \in Calls(log, "gTTS.save") : log[i].out = RAISED
    /\ result.success
    /\ result.response_audio = None

\* The line is "/context <tag>" or "/mode <tag>", in any case.
IsContextLine(line) == StartsWith(Typed(line), CMD_context)
IsModeLine(line) == StartsWith(Typed(line), CMD_mode)

\* The tag of such a line, in lower case: its second word.
C27_Tag(line) == split(Typed(line))[2]

\* The setting is the one the typed tag names.
C27_Names(setting, tag) ==
    \/ tag = W_general /\ setting = "general"
    \/ tag = W_medical /\ setting = "medical"
    \/ tag = W_technical /\ setting = "technical"
    \/ tag = W_text /\ setting = "text"
    \/ tag = W_audio /\ setting = "audio"
    \/ tag = W_both /\ setting = "both"

\* The settings of the running loop are within their ranges.
C27_SettingsInRange ==
    /\ session.loop \in {"TT", "UNI"} => session.context \in {"general", "medical", "technical"}
    /\ session.loop = "UNI" => session.output_mode \in {"text", "audio", "both"}

\* The turn handled "/context <tag>": a valid tag is the context now, an
\* invalid one changed nothing; nothing else changed and nothing was called.
C27_ContextHandled ==
    /\ log = <<>>
    /\ ~raised
    /\ IF C27_Tag(call.line) \in {W_general, W_medical, W_technical}
           THEN /\ C27_Names(session.context, C27_Tag(call.line))
                /\ session = [call.before EXCEPT !.context = session.context]
       ELSE session = call.before

\* The turn handled "/mode <tag>" likewise.
C27_ModeHandled ==
    /\ log = <<>>
    /\ ~raised
    /\ "output_mode" \in DOMAIN session
    /\ IF C27_Tag(call.line) \in {W_text, W_audio, W_both}
           THEN /\ C27_Names(session.output_mode, C27_Tag(call.line))
                /\ session = [call.before EXCEPT !.output_mode = session.output_mode]
       ELSE session = call.before

\* C27 as stated: in every reachable state of the chat loops the context is
\* one of general, medical, technical and the output mode one of text, audio,
\* both; in either loop a /context or /mode command with a valid tag, in any
\* case, sets the setting to that tag, one with an invalid tag leaves it
\* unchanged, and the command text is never processed as a message.
C27_Original ==
    /\ C27_SettingsInRange
    /\ (IsChatTurn /\ IsContextLine(call.line)) => C27_ContextHandled
    /\ (IsChatTurn /\ IsModeLine(call.line)) => C27_ModeHandled

\* C27 amended: the settings stay within their ranges, and each loop handles
\* the commands of the settings it has: /context in interactive_mode and in
\* interactive_chat, /mode in interactive_chat only.  Such a command with a
\* valid tag, in any case, sets the setting to that tag, one with an invalid
\* tag leaves it unchanged, and the command text is not processed as a
\* message.  interactive_mode has no output mode and no /mode command: there
\* a line "/mode <tag>" is a message like any other and goes to process_text.
C27_OwnSettingCommands ==
    /\ C27_SettingsInRange
    /\ (IsChatTurn /\ IsContextLine(call.line)) => C27_ContextHandled
    /\ (IsLoopTurn("UNI.interactive_chat") /\ IsModeLine(call.line)) => C27_ModeHandled
    /\ (IsLoopTurn("TT.interactive_mode") /\ IsModeLine(call.line))
          => /\ Cardinality(PipelineCalls(log)) = 1
             /\ log[1].op = "process_text"
             /\ log[1].args[1] = strip(call.line)

\* C27 witness: "/MODE Both" switched interactive_chat from audio to both
\* output in a session whose context is medical.
C27_Witness ==
    /\ IsLoopTurn("UNI.interactive_chat")
    /\ call.line = LINE_Mode_Both
    /\ call.before.output_mode = "audio"
    /\ call.before.context = "medical"
    /\ session.output_mode = "both"
    /\ session.context = "medical"

\* The calls of fn in the log of the turn that returned a result with
\* success True.
C28_Succeeded(fn) ==
    {i \in Calls(log, fn) : "success" \in DOMAIN log[i].ret /\ log[i].ret.success}

\* C28: the conversation history of interactive_mode holds one record per
\* processed message, in the order the messages were entered: a turn whose
\* process_text call returned adds the returned record, which is about the
\* line just typed, at the end of the history, and every other turn leaves
\* the history as it was.  The conversation count of interactive_chat counts
\* the communicate() calls that returned success True: such a turn adds one,
\* every other turn, a failed one included, leaves it.  Neither decreases.
C28_HistoryAndCount ==
    /\ IsLoopTurn("TT.interactive_mode") =>
          LET before == call.before.conversation_history
              after  == session.conversation_history
              ok     == C28_Succeeded("process_text")
          IN  /\ Cardinality(Calls(log, "process_text")) <= 1
              /\ Len(after) >= Len(before)
              /\ ok = {} => after = before
              /\ \A i \in ok : /\ after = Append(before, log[i].ret)
                               /\ after[Len(after)].user_input = strip(call.line)
    /\ IsLoopTurn("UNI.interactive_chat") =>
          /\ Cardinality(Calls(log, "communicate")) <= 1
          /\ session.conversation_count
                = call.before.conversation_count + Cardinality(C28_Succeeded("communicate"))

\* C28 witness: "hi" and then "/mode audio" were typed as messages in
\* interactive_mode; the history holds their two records in that order.
C28_Witness ==
    /\ IsLoopTurn("TT.interactive_mode")
    /\ call.line = LINE_mode_audio
    /\ Len(session.conversation_history) = 2
    /\ session.conversation_history[1].user_input = strip(F_hi)
    /\ session.conversation_history[2].user_input = LINE_mode_audio

IsTextCall == IsCall("TT.process_text")

\* C29: of every result of process_text: translate_to_english was invoked if
\* and only if the detected language is 'ml', and english_query is the input
\* itself when the language is 'en'; translate_to_malayalam was invoked if
\* and only if respond_in_malayalam is true, final_response is
\* ai_response_english when it is false, and response_language is 'ml'
\* exactly when respond_in_malayalam is true, 'en' otherwise; success is True.
C29_TranslationsAsAsked ==
    IsTextCall =>
        /\ ~raised
        /\ result.success = TRUE
        /\ result.user_input = call.user_input
        /\ result.user_language \in {TAG_ml, TAG_en}
        /\ Calls(log, "ml_to_en.translate") # {} <=> result.user_language = TAG_ml
        /\ result.user_language = TAG_en => result.english_query = call.user_input
        /\ Calls(log, "en_to_ml.translate") # {} <=> call.respond_in_malayalam
        /\ ~call.respond_in_malayalam => result.final_response = result.ai_response_english
        /\ result.response_language = (IF call.respond_in_malayalam THEN TAG_ml ELSE TAG_en)

\* C29 witness: a text of one Malayalam chillu letter, which the character
\* list does not know, was found to be Malayalam by the auto-detect
\* translation and translated to English; an English response was asked for
\* and nothing was translated to Malayalam.
C29_Witness ==
    /\ IsTextCall
    /\ call.user_input = F_chillu
    /\ ~call.respond_in_malayalam
    /\ result.user_language = TAG_ml
    /\ Calls(log, "auto.translate") # {}
    /\ Calls(log, "ml_to_en.translate") # {}
    /\ Calls(log, "en_to_ml.translate") = {}
    /\ result.final_response = result.ai_response_english
    /\ result.response_language = TAG_en

\* communicate returned a result with success True.
C30_Succeeded == IsCall("UNI.communicate") /\ result.success

\* What the translator gave is no translation: it raised, or returned None
\* or an empty text.
C30_NoTranslation(out) == out \in {RAISED, None, EMPTY}

\* The text bot was asked for Malayalam and the response of the result is
\* what translate_to_malayalam makes of the English response: the text the
\* translator returned, the English response when it gave no translation.
C30_TranslatedResponse ==
    LET details == result.conversation_details
        english == details.ai_response_english
    IN  /\ details.response_language = TAG_ml
        /\ result.text_response = details.final_response
        /\ Cardinality(Calls(log, "en_to_ml.translate")) = 1
        /\ \A i \in Calls(log, "en_to_ml.translate") :
              /\ log[i].arg = english
              /\ result.text_response
                    = (IF C30_NoTranslation(log[i].out) THEN english ELSE log[i].out)

\* C30 as stated: communicate() always asks for a Malayalam response,
\* whatever the input language, the output type and the context: the
\* text_response of a successful result is the output of
\* translate_to_malayalam applied to the English response, and it equals the
\* English response only when that translation failed or returned nothing.
C30_Original ==
    C30_Succeeded =>
        /\ C30_TranslatedResponse
        /\ result.text_response = result.conversation_details.ai_response_english
              => \A i \in Calls(log, "en_to_ml.translate") : C30_NoTranslation(log[i].out)

\* C30 amended: communicate() always asks for a Malayalam response: the
\* text_response of a successful result is the output of
\* translate_to_malayalam applied to the English response, which is the
\* English response itself when the translation failed or returned nothing,
\* and the text the translator returned otherwise; so it equals the English
\* response also when the translator returned that text unchanged.
C30_AlwaysMalayalam ==
    C30_Succeeded =>
        /\ C30_TranslatedResponse
        /\ result.text_response = result.conversation_details.ai_response_english
              => \A i \in Calls(log, "en_to_ml.translate") :
                    C30_NoTranslation(log[i].out)
                        \/ log[i].out = result.conversation_details.ai_response_english

\* C30 witness: an English question typed in the technical context with text
\* output; the backend answered in English and the response of the result is
\* the Malayalam text the translator returned.
C30_Witness ==
    /\ C30_Succeeded
    /\ call.input_type = "text"
    /\ call.input_data = F_hi
    /\ call.output_type = "text"
    /\ call.context = "technical"
    /\ result.conversation_details.user_language = TAG_en
    /\ result.conversation_details.ai_response_english = LLM_ANSWER
    /\ result.text_response = ML_NAMASKARAM

====
